---------------------------- MODULE Spec2Model ----------------------------
(***************************************************************************)
(* Bitboard Othello engine (src/src/board.rs, src/src/ai.rs).              *)
(*                                                                         *)
(* A u64 mask is modelled as the set of the indices of its set bits        *)
(* (a subset of 0..63): `|` is \cup, `&` is \cap, `!` is the complement in *)
(* 0..63, `1u64 << pos` is {pos}, count_ones is Cardinality, and a shift   *)
(* moves every index and drops the ones that leave 0..63.  The hex         *)
(* constants of the source are written byte by byte, most significant      *)
(* byte first, as in the source text.                                      *)
(***************************************************************************)
EXTENDS Integers, Sequences, FiniteSets, TLC

VARIABLES black, white, moves, call, ret, pre,
          tt, pv_table, killer_moves, history_table, stack, retval, drv, out,
          tie, turns

vars == <<black, white, moves, call, ret, pre,
          tt, pv_table, killer_moves, history_table, stack, retval, drv, out,
          tie, turns>>

\* the variables of a search (SpecSearch)
searchVars == <<tt, pv_table, killer_moves, history_table, stack, retval, drv, out,
                tie, turns>>

---------------------------------------------------------------------------
(* Bounds of the model                                                     *)

\* successful make_move calls explored from the initial position
MaxMoves == 2
\* cells of a line pattern (see LineBoards)
RunLen == 3
\* largest depth passed to find_best_move_with_tt
MaxDepth == 4

\* SpecGame, SpecGui: the number of moves played on from a starting board
MaxPlies == 3

\* SpecGui: the number of times start_new_game is called
MaxGames == 2

---------------------------------------------------------------------------
(* u64 masks                                                               *)

Squares == 0..63

Players == {"Black", "White"}

\* bits of byte value v placed at byte k (k = 0 is the least significant)
ByteBits(v, k) == {8 * k + j : j \in {i \in 0..7 : (v \div (2 ^ i)) % 2 = 1}}

\* the u64 written as 8 hex bytes, most significant first
U64(bytes) == UNION {ByteBits(bytes[i], 8 - i) : i \in 1..8}

ShiftLeft(m, s) == {i + s : i \in {j \in m : j + s <= 63}}

ShiftRight(m, s) == {i - s : i \in {j \in m : j >= s}}

Not64(m) == Squares \ m

DEFAULT_BLACK == U64(<<\H00, \H00, \H00, \H08, \H10, \H00, \H00, \H00>>)

DEFAULT_WHITE == U64(<<\H00, \H00, \H00, \H10, \H08, \H00, \H00, \H00>>)

\* (shift, mask, is_forward)
SHIFTS ==
  << <<1, U64(<<\H7f, \H7f, \H7f, \H7f, \H7f, \H7f, \H7f, \H7f>>), FALSE>>,
     <<1, U64(<<\Hfe, \Hfe, \Hfe, \Hfe, \Hfe, \Hfe, \Hfe, \Hfe>>), TRUE>>,
     <<8, U64(<<\Hff, \Hff, \Hff, \Hff, \Hff, \Hff, \Hff, \H00>>), FALSE>>,
     <<8, U64(<<\H00, \Hff, \Hff, \Hff, \Hff, \Hff, \Hff, \Hff>>), TRUE>>,
     <<9, U64(<<\H7f, \H7f, \H7f, \H7f, \H7f, \H7f, \H7f, \H00>>), FALSE>>,
     <<7, U64(<<\Hfe, \Hfe, \Hfe, \Hfe, \Hfe, \Hfe, \Hfe, \H00>>), FALSE>>,
     <<7, U64(<<\H00, \H7f, \H7f, \H7f, \H7f, \H7f, \H7f, \H7f>>), TRUE>>,
     <<9, U64(<<\Hfe, \Hfe, \Hfe, \Hfe, \Hfe, \Hfe, \Hfe, \Hfe>>), TRUE>> >>

opponent(player) == IF player = "Black" THEN "White" ELSE "Black"

---------------------------------------------------------------------------
(* BitBoard: pure functions of (black, white)                              *)

directions ==
  << <<-1, -1>>, <<-1, 0>>, <<-1, 1>>, <<0, -1>>,
     <<0, 1>>, <<1, -1>>, <<1, 0>>, <<1, 1>> >>

\* ScanDirection with the bounds test done on the flat bit index only
RECURSIVE ScanDirection_flat(_, _, _, _, _, _, _, _)
ScanDirection_flat(my, opp, r, c, dr, dc, direction_flips, found_opponent) ==
  IF ~(r * 8 + c >= 0 /\ r * 8 + c < 64)
  THEN {}
  ELSE LET current_pos == r * 8 + c IN
       IF current_pos \in opp
       THEN ScanDirection_flat(my, opp, r + dr, c + dc, dr, dc,
                               direction_flips \cup {current_pos}, TRUE)
       ELSE IF current_pos \in my
            THEN (IF found_opponent THEN direction_flips ELSE {})
            ELSE {}

\* The while loop of compute_flips for one direction, entered at (r, c) with
\* the discs collected so far; its value is what the direction adds to flips.
RECURSIVE ScanDirection(_, _, _, _, _, _, _, _)
ScanDirection(my, opp, r, c, dr, dc, direction_flips, found_opponent) ==
  IF ~(r >= 0 /\ r < 8 /\ c >= 0 /\ c < 8)
  THEN {}
  ELSE LET current_pos == r * 8 + c IN
       IF current_pos \in opp
       THEN ScanDirection(my, opp, r + dr, c + dc, dr, dc,
                          direction_flips \cup {current_pos}, TRUE)
       ELSE IF current_pos \in my
            THEN (IF found_opponent THEN direction_flips ELSE {})
            ELSE {}

\* compute_flips taking black as the mover's discs whatever the player
compute_flips_black(b, w, pos, player) ==
  LET my  == b
      opp == w
      row == pos \div 8
      col == pos % 8
  IN UNION {ScanDirection(my, opp, row + directions[d][1], col + directions[d][2],
                          directions[d][1], directions[d][2], {}, FALSE)
            : d \in 1..8}

compute_flips(b, w, pos, player) ==
  LET my  == IF player = "Black" THEN b ELSE w
      opp == IF player = "Black" THEN w ELSE b
      row == pos \div 8
      col == pos % 8
  IN UNION {ScanDirection(my, opp, row + directions[d][1], col + directions[d][2],
                          directions[d][1], directions[d][2], {}, FALSE)
            : d \in 1..8}

\* make_move that leaves the flipped discs in the opponent's mask
make_move_keep_opp(b, w, pos, player) ==
  LET pos_bit == {pos} IN
  IF ((b \cup w) \cap pos_bit) # {}
  THEN [ok |-> FALSE, black |-> b, white |-> w]
  ELSE LET flips == compute_flips(b, w, pos, player) IN
       IF flips = {}
       THEN [ok |-> FALSE, black |-> b, white |-> w]
       ELSE IF player = "Black"
            THEN [ok |-> TRUE, black |-> b \cup (pos_bit \cup flips), white |-> w]
            ELSE [ok |-> TRUE, black |-> b, white |-> w \cup (pos_bit \cup flips)]

\* make_move without the test flips == 0
make_move_any_empty(b, w, pos, player) ==
  LET pos_bit == {pos} IN
  IF ((b \cup w) \cap pos_bit) # {}
  THEN [ok |-> FALSE, black |-> b, white |-> w]
  ELSE LET flips == compute_flips(b, w, pos, player) IN
       IF player = "Black"
       THEN [ok |-> TRUE, black |-> b \cup (pos_bit \cup flips),
             white |-> w \cap Not64(flips)]
       ELSE [ok |-> TRUE, black |-> b \cap Not64(flips),
             white |-> w \cup (pos_bit \cup flips)]

\* the board after the call and the returned bool
make_move(b, w, pos, player) ==
  LET pos_bit == {pos} IN
  IF ((b \cup w) \cap pos_bit) # {}
  THEN [ok |-> FALSE, black |-> b, white |-> w]
  ELSE LET flips == compute_flips(b, w, pos, player) IN
       IF flips = {}
       THEN [ok |-> FALSE, black |-> b, white |-> w]
       ELSE IF player = "Black"
            THEN [ok |-> TRUE, black |-> b \cup (pos_bit \cup flips),
                  white |-> w \cap Not64(flips)]
            ELSE [ok |-> TRUE, black |-> b \cap Not64(flips),
                  white |-> w \cup (pos_bit \cup flips)]

\* get_adjacent_mask with the direction mask applied before the shift
get_adjacent_mask_premask(pos) ==
  LET pos_bit == {pos} IN
  UNION {IF SHIFTS[i][3]
         THEN ShiftLeft(pos_bit \cap SHIFTS[i][2], SHIFTS[i][1])
         ELSE ShiftRight(pos_bit \cap SHIFTS[i][2], SHIFTS[i][1])
         : i \in 1..8}

get_adjacent_mask(pos) ==
  LET pos_bit == {pos} IN
  UNION {IF SHIFTS[i][3]
         THEN ShiftLeft(pos_bit, SHIFTS[i][1]) \cap SHIFTS[i][2]
         ELSE ShiftRight(pos_bit, SHIFTS[i][1]) \cap SHIFTS[i][2]
         : i \in 1..8}

is_legal_move(b, w, pos, player) ==
  LET pos_bit == {pos}
      opp == IF player = "Black" THEN w ELSE b
  IN IF ((b \cup w) \cap pos_bit) # {}
     THEN FALSE
     ELSE IF (get_adjacent_mask(pos) \cap opp) = {}
          THEN FALSE
          ELSE compute_flips(b, w, pos, player) # {}

get_legal_moves(b, w, player) ==
  LET occupied == b \cup w IN
  {pos \in Squares : (occupied \cap {pos}) = {} /\ compute_flips(b, w, pos, player) # {}}

count_discs(b, w, player) ==
  IF player = "Black" THEN Cardinality(b) ELSE Cardinality(w)

\* is_game_over ending the game as soon as one side has no legal move
is_game_over_either(b, w) ==
  IF (b \cup w) = Not64({})
  THEN TRUE
  ELSE get_legal_moves(b, w, "Black") = {} \/ get_legal_moves(b, w, "White") = {}

is_game_over(b, w) ==
  IF (b \cup w) = Not64({})
  THEN TRUE
  ELSE get_legal_moves(b, w, "Black") = {} /\ get_legal_moves(b, w, "White") = {}

\* get_winner giving a tie to Black
get_winner_tie_black(b, w) ==
  LET black_count == count_discs(b, w, "Black")
      white_count == count_discs(b, w, "White")
  IN IF black_count >= white_count THEN "Black" ELSE "White"

\* Option<Player>: "None", "Black" or "White"
get_winner(b, w) ==
  LET black_count == count_discs(b, w, "Black")
      white_count == count_discs(b, w, "White")
  IN IF black_count = white_count THEN "None"
     ELSE IF black_count > white_count THEN "Black" ELSE "White"

---------------------------------------------------------------------------
(* ai.rs: constants, evaluator                                             *)

\* i32::MIN (the literal itself is outside the model checker's integer range)
I32_MIN == -2147483647 - 1

I32_MAX == 2147483647

MAX_TT_SIZE == 2000000

TT_CLEANUP_THRESHOLD == 1500000

LMR_DEPTH_THRESHOLD == 3

LMR_MOVE_THRESHOLD == 3

ASPIRATION_WINDOW == 50

\* FUTILITY_MARGIN[depth], indexed from 0 in the source
FUTILITY_MARGIN == <<0, 200, 300, 500, 900>>

POSITION_SCORE ==
  << <<100, -20, 10, 5, 5, 10, -20, 100>>,
     <<-20, -50, -2, -2, -2, -2, -50, -20>>,
     <<10, -2, -1, -1, -1, -1, -2, 10>>,
     <<5, -2, -1, -1, -1, -1, -2, 5>>,
     <<5, -2, -1, -1, -1, -1, -2, 5>>,
     <<10, -2, -1, -1, -1, -1, -2, 10>>,
     <<-20, -50, -2, -2, -2, -2, -50, -20>>,
     <<100, -20, 10, 5, 5, 10, -20, 100>> >>

\* POSITION_SCORE[row][col] of square pos (the source indexes from 0)
PositionScoreAt(pos) == POSITION_SCORE[(pos \div 8) + 1][(pos % 8) + 1]

EARLY_GAME_THRESHOLD == 25

MID_GAME_THRESHOLD == 50

\* indexed by phase: Early, Mid, End
MOBILITY_WEIGHT == <<25, 15, 8>>

PASS_BONUS == 30

DISC_DIFF_WEIGHT == <<5, 20, 1000>>

CORNER_WEIGHT == 300

CORNERS == <<0, 7, 56, 63>>

\* safe_neg as the plain negation of a two's-complement i32
safe_neg_wrapping(value) == IF value = I32_MIN THEN I32_MIN ELSE -value

safe_neg(value) == IF value = I32_MIN THEN I32_MAX ELSE -value

Sum4(f(_)) == f(1) + f(2) + f(3) + f(4)

\* GamePhase::from_empty_count
from_empty_count(empty_count) ==
  IF empty_count > EARLY_GAME_THRESHOLD THEN "Early"
  ELSE IF empty_count > (64 - MID_GAME_THRESHOLD) THEN "Mid"
  ELSE "End"

\* GamePhase::index
phase_index(phase) == IF phase = "End" THEN 1 ELSE 0

empty_count_of(b, w) == 64 - Cardinality(b \cup w)

player_index(player) == IF player = "Black" THEN 0 ELSE 1

is_endgame(b, w) == Cardinality(b \cup w) >= 55

\* evaluate_game_end subtracting the difference from -10000 for the trailing side
evaluate_game_end_minus(b, w, player) ==
  LET black_count == Cardinality(b)
      white_count == Cardinality(w)
      diff == IF player = "Black" THEN black_count - white_count
              ELSE white_count - black_count
  IN IF diff > 0 THEN 10000 + diff
     ELSE IF diff < 0 THEN -10000 - diff
     ELSE 0

evaluate_game_end(b, w, player) ==
  LET black_count == Cardinality(b)
      white_count == Cardinality(w)
      diff == IF player = "Black" THEN black_count - white_count
              ELSE white_count - black_count
  IN IF diff > 0 THEN 10000 + diff
     ELSE IF diff < 0 THEN -10000 + diff
     ELSE 0

\* evaluate_mobility without the penalty of the side that has to pass
evaluate_mobility_no_penalty(b, w, player) ==
  LET my_moves == Cardinality(get_legal_moves(b, w, player))
      opp_moves == Cardinality(get_legal_moves(b, w, opponent(player)))
      mobility_diff == my_moves - opp_moves
  IN IF opp_moves = 0 /\ my_moves > 0 THEN mobility_diff + PASS_BONUS
     ELSE mobility_diff

evaluate_mobility(b, w, player) ==
  LET my_moves == Cardinality(get_legal_moves(b, w, player))
      opp_moves == Cardinality(get_legal_moves(b, w, opponent(player)))
      mobility_diff == my_moves - opp_moves
  IN IF opp_moves = 0 /\ my_moves > 0 THEN mobility_diff + PASS_BONUS
     ELSE IF my_moves = 0 /\ opp_moves > 0 THEN mobility_diff - PASS_BONUS
     ELSE mobility_diff

\* the loop over pos of evaluate_position_value, from pos on
RECURSIVE PositionValueFrom(_, _, _)
PositionValueFrom(my_board, opp_board, pos) ==
  IF pos >= 64 THEN 0
  ELSE (IF pos \in my_board THEN PositionScoreAt(pos)
        ELSE IF pos \in opp_board THEN -PositionScoreAt(pos)
        ELSE 0)
       + PositionValueFrom(my_board, opp_board, pos + 1)

evaluate_position_value(b, w, player) ==
  IF player = "Black" THEN PositionValueFrom(b, w, 0) ELSE PositionValueFrom(w, b, 0)

evaluate_disc_count(b, w, player) ==
  count_discs(b, w, player) - count_discs(b, w, opponent(player))

evaluate_corners_optimized(b, w, player) ==
  LET at(i) == IF CORNERS[i] \in b
               THEN (IF player = "Black" THEN CORNER_WEIGHT ELSE -CORNER_WEIGHT)
               ELSE IF CORNERS[i] \in w
                    THEN (IF player = "White" THEN CORNER_WEIGHT ELSE -CORNER_WEIGHT)
                    ELSE 0
  IN Sum4(at)

RECURSIVE check_direction_stability(_, _, _, _, _, _)
\* entered with (r, c) already advanced by (dr, dc)
check_direction_stability(r, c, dr, dc, my_board, stable) ==
  IF ~(r >= 0 /\ r < 8 /\ c >= 0 /\ c < 8)
  THEN TRUE
  ELSE LET pos == r * 8 + c IN
       IF pos \in stable THEN TRUE
       ELSE IF pos \notin my_board THEN FALSE
       ELSE check_direction_stability(r + dr, c + dc, dr, dc, my_board, stable)

\* the four chunks of two opposite directions of expand_stability
stability_axes ==
  << << <<0, 1>>, <<0, -1>> >>, << <<1, 0>>, <<-1, 0>> >>,
     << <<1, 1>>, <<-1, -1>> >>, << <<1, -1>>, <<-1, 1>> >> >>

is_stable_at(pos, my_board, stable) ==
  LET row == pos \div 8
      col == pos % 8
      dir(d) == check_direction_stability(row + d[1], col + d[2], d[1], d[2],
                                          my_board, stable)
  IN \A a \in 1..4 : dir(stability_axes[a][1]) \/ dir(stability_axes[a][2])

\* one pass of the for loop over pos in expand_stability, from pos on;
\* stable grows during the pass
RECURSIVE ExpandPass(_, _, _, _)
ExpandPass(stable, my_board, pos, changed) ==
  IF pos >= 64 THEN [stable |-> stable, changed |-> changed]
  ELSE IF pos \in my_board /\ pos \notin stable /\ is_stable_at(pos, my_board, stable)
       THEN ExpandPass(stable \cup {pos}, my_board, pos + 1, TRUE)
       ELSE ExpandPass(stable, my_board, pos + 1, changed)

RECURSIVE expand_stability(_, _)
expand_stability(stable, my_board) ==
  LET p == ExpandPass(stable, my_board, 0, FALSE) IN
  IF p.changed THEN expand_stability(p.stable, my_board) ELSE p.stable

\* the loop over the corners of compute_stable_discs, from corner i on
RECURSIVE StableFromCorner(_, _, _)
StableFromCorner(stable, my_board, i) ==
  IF i > 4 THEN stable
  ELSE IF CORNERS[i] \in my_board
       THEN StableFromCorner(expand_stability(stable \cup {CORNERS[i]}, my_board),
                             my_board, i + 1)
       ELSE StableFromCorner(stable, my_board, i + 1)

compute_stable_discs(b, w, player) ==
  StableFromCorner({}, IF player = "Black" THEN b ELSE w, 1)

evaluate_stability(b, w, player) ==
  Cardinality(compute_stable_discs(b, w, player))
    - Cardinality(compute_stable_discs(b, w, opponent(player)))

evaluate_parity(b, w, player) ==
  IF empty_count_of(b, w) % 2 = 0
  THEN (IF player = "White" THEN 10 ELSE -10)
  ELSE (IF player = "Black" THEN 10 ELSE -10)

\* evaluate_board_optimized without the test for the end of the game
evaluate_board_optimized_no_end(b, w, player) ==
  LET phase == from_empty_count(empty_count_of(b, w)) IN
  IF phase = "Early"
  THEN evaluate_mobility(b, w, player) * MOBILITY_WEIGHT[1]
       + evaluate_position_value(b, w, player)
       + evaluate_disc_count(b, w, player) * DISC_DIFF_WEIGHT[1]
  ELSE IF phase = "Mid"
       THEN evaluate_mobility(b, w, player) * MOBILITY_WEIGHT[2]
            + evaluate_position_value(b, w, player)
            + evaluate_corners_optimized(b, w, player)
            + evaluate_stability(b, w, player)
            + evaluate_disc_count(b, w, player) * DISC_DIFF_WEIGHT[2]
       ELSE evaluate_disc_count(b, w, player) * DISC_DIFF_WEIGHT[3]
            + evaluate_corners_optimized(b, w, player)
            + evaluate_stability(b, w, player) * 2
            + evaluate_parity(b, w, player)
            + evaluate_mobility(b, w, player) * MOBILITY_WEIGHT[3]

evaluate_board_optimized(b, w, player) ==
  LET phase == from_empty_count(empty_count_of(b, w)) IN
  IF get_legal_moves(b, w, "Black") = {} /\ get_legal_moves(b, w, "White") = {}
  THEN evaluate_game_end(b, w, player)
  ELSE IF phase = "Early"
       THEN evaluate_mobility(b, w, player) * MOBILITY_WEIGHT[1]
            + evaluate_position_value(b, w, player)
            + evaluate_disc_count(b, w, player) * DISC_DIFF_WEIGHT[1]
       ELSE IF phase = "Mid"
            THEN evaluate_mobility(b, w, player) * MOBILITY_WEIGHT[2]
                 + evaluate_position_value(b, w, player)
                 + evaluate_corners_optimized(b, w, player)
                 + evaluate_stability(b, w, player)
                 + evaluate_disc_count(b, w, player) * DISC_DIFF_WEIGHT[2]
            ELSE evaluate_disc_count(b, w, player) * DISC_DIFF_WEIGHT[3]
                 + evaluate_corners_optimized(b, w, player)
                 + evaluate_stability(b, w, player) * 2
                 + evaluate_parity(b, w, player)
                 + evaluate_mobility(b, w, player) * MOBILITY_WEIGHT[3]

\* evaluate_move_fast without the flip-count weight
evaluate_move_fast_no_flips(b, w, pos, player) ==
  PositionScoreAt(pos)
    + (IF pos = 0 \/ pos = 7 \/ pos = 56 \/ pos = 63 THEN CORNER_WEIGHT ELSE 0)

evaluate_move_fast(b, w, pos, player) ==
  PositionScoreAt(pos)
    + (IF pos = 0 \/ pos = 7 \/ pos = 56 \/ pos = 63 THEN CORNER_WEIGHT ELSE 0)
    + Cardinality(compute_flips(b, w, pos, player)) * 10

\* Option<T>: None is <<>>, Some(x) is <<x>>
None == <<>>

Some(x) == <<x>>

IsSome(o) == o # <<>>

Unwrap(o) == o[1]

\* the loop over pos of level1_best_move, from pos on
RECURSIVE Level1From(_, _, _, _, _, _, _)
Level1From(b, w, player, legal_moves, pos, best_move, best_score) ==
  IF pos >= 64 THEN best_move
  ELSE IF pos \in legal_moves /\ evaluate_move_fast(b, w, pos, player) > best_score
       THEN Level1From(b, w, player, legal_moves, pos + 1, Some(pos),
                       evaluate_move_fast(b, w, pos, player))
       ELSE Level1From(b, w, player, legal_moves, pos + 1, best_move, best_score)

level1_best_move(b, w, player) ==
  LET legal_moves == get_legal_moves(b, w, player) IN
  IF legal_moves = {} THEN None
  ELSE Level1From(b, w, player, legal_moves, 0, None, I32_MIN)

---------------------------------------------------------------------------
(* ai.rs: the tables of one search                                         *)

Plies == 0..63

\* PVTable::new.  moves[ply] holds the first length[ply] entries of the row,
\* the only ones update and get_pv_move read.
PVTable_new == [length |-> [p \in Plies |-> 0], moves |-> [p \in Plies |-> <<>>]]

\* update that puts best_move after the line copied from from_ply
pv_update_append(pv, ply, best_move, from_ply) ==
  [length |-> [pv.length EXCEPT ![ply] = pv.length[from_ply] + 1],
   moves  |-> [pv.moves EXCEPT ![ply] =
                 SubSeq(pv.moves[from_ply], 1, pv.length[from_ply]) \o <<best_move>>]]

pv_update(pv, ply, best_move, from_ply) ==
  [length |-> [pv.length EXCEPT ![ply] = pv.length[from_ply] + 1],
   moves  |-> [pv.moves EXCEPT ![ply] =
                 <<best_move>> \o SubSeq(pv.moves[from_ply], 1, pv.length[from_ply])]]

get_pv_move(pv, ply) ==
  IF pv.length[ply] > 0 THEN Some(pv.moves[ply][1]) ELSE None

\* pv_table.length[ply] = 0
pv_reset(pv, ply) == [pv EXCEPT !.length[ply] = 0]

KillerMoves_new == [p \in Plies |-> <<None, None>>]

add_killer(km, ply, mv) ==
  IF ply >= 64 THEN km
  ELSE IF km[ply][1] # Some(mv)
       THEN [km EXCEPT ![ply] = <<Some(mv), km[ply][1]>>]
       ELSE km

is_killer(km, ply, mv) ==
  IF ply >= 64 THEN FALSE
  ELSE km[ply][1] = Some(mv) \/ km[ply][2] = Some(mv)

\* scores[phase][player][mv]
HistoryTable_new == [ph \in 0..1 |-> [pl \in 0..1 |-> [mv \in Squares |-> 0]]]

Clamp(x, lo, hi) == IF x < lo THEN lo ELSE IF x > hi THEN hi ELSE x

history_update(ht, phase, player, mv, depth, is_good) ==
  IF mv >= 64 \/ phase >= 2 \/ player >= 2 THEN ht
  ELSE LET bonus == depth * depth
           v == IF is_good THEN ht[phase][player][mv] + bonus
                ELSE ht[phase][player][mv] - (bonus \div 2)
       IN [ht EXCEPT ![phase][player][mv] = Clamp(v, -10000, 10000)]

history_get_score(ht, phase, player, mv) ==
  IF mv >= 64 \/ phase >= 2 \/ player >= 2 THEN 0 ELSE ht[phase][player][mv]

\* i32 division truncates toward zero
DivTrunc(x, d) == IF x >= 0 THEN x \div d ELSE -((-x) \div d)

history_age(ht) ==
  [ph \in 0..1 |-> [pl \in 0..1 |-> [mv \in Squares |-> DivTrunc(ht[ph][pl][mv] * 7, 8)]]]

\* the key (self.black, self.white, player as u8)
tt_key(b, w, player) == <<b, w, player_index(player)>>

Entry(score, depth, flag, best_move) ==
  [score |-> score, depth |-> depth, flag |-> flag, best_move |-> best_move]

tt_get(t, key) == IF key \in DOMAIN t THEN Some(t[key]) ELSE None

\* FxHashMap::insert: the entry replaces any entry of the key
tt_insert(t, key, entry) ==
  [k \in (DOMAIN t) \cup {key} |-> IF k = key THEN entry ELSE t[k]]

---------------------------------------------------------------------------
(* Operations on the live board                                            *)

NoCall == [op |-> "none", pos |-> 0, player |-> "Black"]

Board(b, w) == [black |-> b, white |-> w]

\* BitBoard::new
new == Board(DEFAULT_BLACK, DEFAULT_WHITE)

\* MakeMove that turns the flipped discs but leaves pos empty
MakeMove_no_pos_bit(pos, player) ==
  \E r \in {make_move(black, white, pos, player)} :
    /\ black' = r.black \ (IF r.ok THEN {pos} ELSE {})
    /\ white' = r.white \ (IF r.ok THEN {pos} ELSE {})
    /\ moves' = IF r.ok THEN moves + 1 ELSE moves
    /\ call' = [op |-> "make_move", pos |-> pos, player |-> player]
    /\ ret' = r.ok
    /\ pre' = Board(black, white)

\* moves counts the accepted calls
MakeMove(pos, player) ==
  \E r \in {make_move(black, white, pos, player)} :
    /\ black' = r.black
    /\ white' = r.white
    /\ moves' = IF r.ok THEN moves + 1 ELSE moves
    /\ call' = [op |-> "make_move", pos |-> pos, player |-> player]
    /\ ret' = r.ok
    /\ pre' = Board(black, white)

ComputeFlips(pos, player) ==
  /\ call' = [op |-> "compute_flips", pos |-> pos, player |-> player]
  /\ ret' = compute_flips(black, white, pos, player)
  /\ pre' = Board(black, white)
  /\ UNCHANGED <<black, white, moves>>

IsLegalMove(pos, player) ==
  /\ call' = [op |-> "is_legal_move", pos |-> pos, player |-> player]
  /\ ret' = is_legal_move(black, white, pos, player)
  /\ pre' = Board(black, white)
  /\ UNCHANGED <<black, white, moves>>

\* GetLegalMoves that does not skip the occupied squares
GetLegalMoves_occupied(player) ==
  /\ call' = [op |-> "get_legal_moves", pos |-> 0, player |-> player]
  /\ ret' = {pos \in Squares : compute_flips(black, white, pos, player) # {}}
  /\ pre' = Board(black, white)
  /\ UNCHANGED <<black, white, moves>>

GetLegalMoves(player) ==
  /\ call' = [op |-> "get_legal_moves", pos |-> 0, player |-> player]
  /\ ret' = get_legal_moves(black, white, player)
  /\ pre' = Board(black, white)
  /\ UNCHANGED <<black, white, moves>>

IsGameOver ==
  /\ call' = [op |-> "is_game_over", pos |-> 0, player |-> "Black"]
  /\ ret' = is_game_over(black, white)
  /\ pre' = Board(black, white)
  /\ UNCHANGED <<black, white, moves>>

GetWinner ==
  /\ call' = [op |-> "get_winner", pos |-> 0, player |-> "Black"]
  /\ ret' = get_winner(black, white)
  /\ pre' = Board(black, white)
  /\ UNCHANGED <<black, white, moves>>

\* evaluate_game_end(player) on the live board
EvaluateGameEnd(player) ==
  /\ call' = [op |-> "evaluate_game_end", pos |-> 0, player |-> player]
  /\ ret' = evaluate_game_end(black, white, player)
  /\ pre' = Board(black, white)
  /\ UNCHANGED <<black, white, moves>>

\* a - b on i32: None when the result does not fit (the operation panics
\* or wraps, depending on the build)
i32_sub(a, b) ==
  IF (b > 0 /\ a < I32_MIN + b) \/ (b < 0 /\ a > I32_MAX + b)
  THEN None
  ELSE Some(a - b)

\* the bounds of the null-window call of the move loop for a node whose
\* alpha is alpha: safe_neg(alpha) - 1 and safe_neg(alpha)
NullWindow(alpha) ==
  /\ call' = [op |-> "null_window", pos |-> 0, player |-> "Black"]
  /\ ret' = [alpha |-> alpha,
             child_alpha |-> i32_sub(safe_neg(alpha), 1),
             child_beta |-> safe_neg(alpha)]
  /\ pre' = Board(black, white)
  /\ UNCHANGED <<black, white, moves>>

---------------------------------------------------------------------------
(* Spec: any sequence of make_move calls on a board created by new()       *)

\* no search is running
NoSearch ==
  /\ tt = <<>>
  /\ pv_table = <<>>
  /\ killer_moves = <<>>
  /\ history_table = <<>>
  /\ stack = <<>>
  /\ retval = <<>>
  /\ drv = <<>>
  /\ out = <<>>
  /\ tie = "asc"
  /\ turns = 0

Init ==
  /\ NoSearch
  /\ black = new.black
  /\ white = new.white
  /\ moves = 0
  /\ call = NoCall
  /\ ret = FALSE
  /\ pre = new

Next ==
  \E pos \in Squares, player \in Players :
     moves < MaxMoves /\ MakeMove(pos, player) /\ UNCHANGED searchVars

Spec == Init /\ [][Next]_vars

---------------------------------------------------------------------------
(* SpecBoards: one call of a board function on a board drawn from          *)
(* TestBoards                                                              *)

MinOf(S) == CHOOSE x \in S : \A y \in S : x <= y

MaxOf(S) == CHOOSE x \in S : \A y \in S : x >= y

\* The boards of one complete game played as the loop of run_cli_game plays
\* it (the side to move passes when it has no legal move, the game ends when
\* is_game_over), each side taking its lowest ("lo") or highest ("hi") legal
\* square.
RECURSIVE PlayoutFrom(_, _, _, _)
PlayoutFrom(b, w, current_player, pick) ==
  IF is_game_over(b, w)
  THEN <<Board(b, w)>>
  ELSE LET legal_moves == get_legal_moves(b, w, current_player) IN
       IF legal_moves = {}
       THEN PlayoutFrom(b, w, opponent(current_player), pick)
       ELSE LET pos == IF pick = "lo" THEN MinOf(legal_moves) ELSE MaxOf(legal_moves)
                r == make_move(b, w, pos, current_player)
            IN <<Board(b, w)>> \o PlayoutFrom(r.black, r.white,
                                             opponent(current_player), pick)

PlayoutLo == PlayoutFrom(new.black, new.white, "Black", "lo")

PlayoutHi == PlayoutFrom(new.black, new.white, "Black", "hi")

PlayoutBoards ==
  {PlayoutLo[i] : i \in DOMAIN PlayoutLo} \cup {PlayoutHi[i] : i \in DOMAIN PlayoutHi}

\* Full boards: the first n squares black, the rest white.
FullBoards == {Board({s \in Squares : s < n}, {s \in Squares : s >= n}) : n \in {0, 31, 32, 33, 64}}

\* <<start, stride>>: the squares start, start + stride, ... by bit index, so
\* that strides 1, 7 and 9 run across the left and right edges of the board.
Lines ==
  { <<0, 1>>, <<6, 1>>, <<27, 1>>, <<0, 8>>, <<40, 8>>,
    <<0, 9>>, <<6, 9>>, <<45, 9>>, <<7, 7>>, <<1, 7>> }

Cells == {"E", "B", "W"}

LineBoard(line, pat) ==
  LET sq(i) == line[1] + i * line[2]
      on(c) == {sq(i) : i \in {j \in 0..(RunLen - 1) : pat[j] = c /\ sq(j) <= 63}}
  IN Board(on("B"), on("W"))

LineBoards == {LineBoard(line, pat) : line \in Lines, pat \in [0..(RunLen - 1) -> Cells]}

TestBoards == LineBoards \cup PlayoutBoards \cup FullBoards

InitBoards ==
  /\ NoSearch
  /\ \E bd \in TestBoards : black = bd.black /\ white = bd.white /\ pre = bd
  /\ moves = 0
  /\ call = NoCall
  /\ ret = FALSE

NextBoards ==
  \/ \E pos \in Squares, player \in Players :
        call.op = "none" /\ MakeMove(pos, player) /\ UNCHANGED searchVars
  \/ \E pos \in Squares, player \in Players :
        call.op = "none" /\ ComputeFlips(pos, player) /\ UNCHANGED searchVars
  \/ \E pos \in Squares, player \in Players :
        call.op = "none" /\ IsLegalMove(pos, player) /\ UNCHANGED searchVars
  \/ \E player \in Players :
        call.op = "none" /\ GetLegalMoves(player) /\ UNCHANGED searchVars
  \/ call.op = "none" /\ IsGameOver /\ UNCHANGED searchVars
  \/ call.op = "none" /\ GetWinner /\ UNCHANGED searchVars
  \/ \E player \in Players :
        call.op = "none" /\ EvaluateGameEnd(player) /\ UNCHANGED searchVars
  \/ \E alpha \in {I32_MIN, I32_MIN + 1, -ASPIRATION_WINDOW, -1, 0, 1,
                    ASPIRATION_WINDOW, I32_MAX - 1, I32_MAX} :
        call.op = "none" /\ NullWindow(alpha) /\ UNCHANGED searchVars

SpecBoards == InitBoards /\ [][NextBoards]_vars

---------------------------------------------------------------------------
(* ai.rs: move ordering and the frames of minimax_with_tt_internal         *)

Move(position, score) == [position |-> position, score |-> score]

\* impl Ord for Move compares the scores only, higher first.  sort_unstable
\* leaves the order of moves of equal score to the library; t fixes it to
\* ascending ("asc") or descending ("desc") position.
MoveBefore(m1, m2, t) ==
  \/ m1.score > m2.score
  \/ /\ m1.score = m2.score
     /\ IF t = "asc" THEN m1.position <= m2.position ELSE m1.position >= m2.position

RECURSIVE sort_unstable(_, _)
sort_unstable(ms, t) ==
  IF ms = {} THEN <<>>
  ELSE LET m == CHOOSE x \in ms : \A y \in ms : MoveBefore(x, y, t)
       IN <<m>> \o sort_unstable(ms \ {m}, t)

order_moves(b, w, legal_moves, player, ply, pv, km, ht, t) ==
  LET phase_idx  == phase_index(from_empty_count(empty_count_of(b, w)))
      player_idx == player_index(player)
      pv_move    == get_pv_move(pv, ply)
      score(pos) ==
          (IF IsSome(pv_move) /\ Unwrap(pv_move) = pos THEN 10000 ELSE 0)
        + (IF is_killer(km, ply, pos) THEN 5000 ELSE 0)
        + history_get_score(ht, phase_idx, player_idx, pos)
        + PositionScoreAt(pos)
        + (IF pos = 0 \/ pos = 7 \/ pos = 56 \/ pos = 63 THEN CORNER_WEIGHT ELSE 0)
        + Cardinality(compute_flips(b, w, pos, player)) * 10
  IN sort_unstable({Move(pos, score(pos)) : pos \in legal_moves}, t)

\* the parameters and locals of one call of minimax_with_tt_internal and the
\* point it has reached (stage)
Frame(b, w, player, depth, alpha, beta, ply) ==
  [b |-> b, w |-> w, player |-> player, depth |-> depth, alpha |-> alpha,
   beta |-> beta, ply |-> ply, original_alpha |-> alpha, stage |-> "enter",
   legal_moves |-> {}, moves |-> <<>>, move_count |-> 0,
   best_score |-> I32_MIN, best_move |-> None, futility_prune |-> FALSE,
   static_eval |-> 0, new_board |-> Board(b, w), reduction |-> 0]

\* the transposition-table probe: the value returned at once, if any, and
\* alpha as the probe leaves it
tt_probe(t, f) ==
  LET e == tt_get(t, tt_key(f.b, f.w, f.player))
      miss == [ret |-> None, alpha |-> f.alpha]
  IN IF IsSome(e) /\ Unwrap(e).depth >= f.depth
     THEN LET entry == Unwrap(e) IN
          CASE entry.flag = "Exact" -> [ret |-> Some(entry.score), alpha |-> f.alpha]
            [] entry.flag = "LowerBound" ->
                 IF entry.score >= f.beta
                 THEN [ret |-> Some(entry.score), alpha |-> f.alpha]
                 ELSE [ret |-> None,
                       alpha |-> IF entry.score > f.alpha THEN entry.score ELSE f.alpha]
            [] entry.flag = "UpperBound" ->
                 IF entry.score <= f.alpha
                 THEN [ret |-> Some(entry.score), alpha |-> f.alpha]
                 ELSE miss
     ELSE miss

\* which of the branches after the probe the call takes
node_kind(f) ==
  IF f.depth = 0 THEN "leaf"
  ELSE IF is_game_over(f.b, f.w) THEN "terminal"
  ELSE IF get_legal_moves(f.b, f.w, f.player) = {} THEN "pass"
  ELSE "expand"

\* history_table.update(.., false) for moves[i..]
RECURSIVE history_penalise(_, _, _, _, _, _)
history_penalise(ht, phase_idx, player_idx, mvs, i, depth) ==
  IF i > Len(mvs) THEN ht
  ELSE history_penalise(
         history_update(ht, phase_idx, player_idx, mvs[i].position, depth, FALSE),
         phase_idx, player_idx, mvs, i + 1, depth)

\* the statements after the score of the move moves[move_count] is known:
\* the frame, the PV table, the killers and the history they leave
bookkeep(f, score, pv, km, ht) ==
  LET mv         == f.moves[f.move_count + 1].position
      phase_idx  == phase_index(from_empty_count(empty_count_of(f.b, f.w)))
      player_idx == player_index(f.player)
      next       == [f EXCEPT !.move_count = f.move_count + 1, !.stage = "loop"]
  IN IF score > f.best_score
     THEN LET pv1 == pv_update(pv, f.ply, mv, f.ply + 1)
              f1  == [next EXCEPT !.best_score = score, !.best_move = Some(mv)]
          IN IF score > f.alpha
             THEN LET ht1 == history_update(ht, phase_idx, player_idx, mv, f.depth, TRUE)
                      f2  == [f1 EXCEPT !.alpha = score]
                  IN IF score >= f.beta
                     THEN [f  |-> [f2 EXCEPT !.stage = "store"],
                           pv |-> pv1,
                           km |-> add_killer(km, f.ply, mv),
                           ht |-> history_penalise(ht1, phase_idx, player_idx,
                                                   f.moves, f.move_count + 2, f.depth)]
                     ELSE [f |-> f2, pv |-> pv1, km |-> km, ht |-> ht1]
             ELSE [f |-> f1, pv |-> pv1, km |-> km, ht |-> ht]
     ELSE [f |-> next, pv |-> pv, km |-> km, ht |-> ht]

\* store_flag comparing with alpha as the move loop left it
store_flag_current_alpha(f) ==
  IF f.best_score <= f.alpha THEN "UpperBound"
  ELSE IF f.best_score >= f.beta THEN "LowerBound"
  ELSE "Exact"

\* the flag of the entry stored when the move loop is over
store_flag(f) ==
  IF f.best_score <= f.original_alpha THEN "UpperBound"
  ELSE IF f.best_score >= f.beta THEN "LowerBound"
  ELSE "Exact"

\* cleanup_tt: the tables it can leave (the order in which the map is
\* iterated decides which shallow entries go)
cleanup_tt(t) ==
  IF Cardinality(DOMAIN t) <= MAX_TT_SIZE THEN {t}
  ELSE LET target_size == (MAX_TT_SIZE * 3) \div 4
           shallow == {k \in DOMAIN t : t[k].depth <= 2}
           n == IF Cardinality(shallow) + target_size >= Cardinality(DOMAIN t)
                THEN Cardinality(DOMAIN t) - target_size
                ELSE Cardinality(shallow)
       IN {[k \in (DOMAIN t) \ R |-> t[k]] : R \in {S \in SUBSET shallow : Cardinality(S) = n}}

---------------------------------------------------------------------------
(* find_best_move_with_tt, step by step.  drv holds the locals of           *)
(* iterative_deepening_search and aspiration_window_search and the point    *)
(* the driver has reached; stack holds the active calls of                  *)
(* minimax_with_tt_internal, the innermost last; retval is the value the    *)
(* call that has just returned hands to its caller.                         *)

Driver(pc, player) ==
  [pc |-> pc, player |-> player, max_depth |-> 0, current_depth |-> 0,
   best_move |-> None, best_eval |-> None, alpha |-> 0, beta |-> 0,
   window_size |-> 0, result |-> None, expired |-> FALSE]

Top == stack[Len(stack)]

SetTop(f) == [stack EXCEPT ![Len(stack)] = f]

Pop == SubSeq(stack, 1, Len(stack) - 1)

InCall(stage) == stack # <<>> /\ retval = None /\ Top.stage = stage

Returned(stage) == stack # <<>> /\ retval # None /\ Top.stage = stage

\* the readings of start_time.elapsed() > time_limit the clock allows once
\* the previous reading was e
Elapsed(e) == IF e THEN {TRUE} ELSE {FALSE, TRUE}

FindBestMove(depth) ==
  /\ drv.pc = "idle"
  /\ turns > 0
  /\ turns' = turns - 1
  /\ IF depth = 0
     THEN /\ out' = <<None, None>>
          /\ drv' = Driver("done", drv.player)
          /\ tt' = tt
     ELSE /\ out' = out
          /\ drv' = [Driver("iter", drv.player) EXCEPT !.max_depth = depth,
                                                        !.current_depth = 1]
          /\ IF Cardinality(DOMAIN tt) > TT_CLEANUP_THRESHOLD
             THEN tt' \in cleanup_tt(tt)
             ELSE tt' = tt
  /\ pv_table' = PVTable_new
  /\ killer_moves' = KillerMoves_new
  /\ history_table' = HistoryTable_new
  /\ UNCHANGED <<black, white, moves, call, ret, pre, stack, retval, tie>>

\* the head of the loop over current_depth, entering aspiration_window_search
IterStart ==
  /\ drv.pc = "iter"
  /\ drv.current_depth <= drv.max_depth
  /\ \E e \in Elapsed(drv.expired) :
       /\ ~(e /\ drv.current_depth > 3)
       /\ IF drv.current_depth <= 3
          THEN drv' = [drv EXCEPT !.pc = "mbm", !.expired = e]
          ELSE LET prev_score == IF IsSome(drv.best_eval) THEN Unwrap(drv.best_eval) ELSE 0
               IN drv' = [drv EXCEPT !.pc = "asp", !.expired = e,
                                     !.alpha = prev_score - ASPIRATION_WINDOW,
                                     !.beta = prev_score + ASPIRATION_WINDOW,
                                     !.window_size = ASPIRATION_WINDOW]
  /\ UNCHANGED <<black, white, moves, call, ret, pre, tt, pv_table, killer_moves,
                 history_table, stack, retval, out, tie, turns>>

\* IterStop with the time test applied at every depth
IterStop_any_depth ==
  /\ drv.pc = "iter"
  /\ \/ drv.current_depth > drv.max_depth
     \/ TRUE \in Elapsed(drv.expired)
  /\ drv' = [drv EXCEPT !.pc = "finish",
                        !.expired = IF drv.current_depth > drv.max_depth THEN @ ELSE TRUE]
  /\ UNCHANGED <<black, white, moves, call, ret, pre, tt, pv_table, killer_moves,
                 history_table, stack, retval, out, tie, turns>>

\* the loop ends: all depths done, or the time is up before a depth above 3
IterStop ==
  /\ drv.pc = "iter"
  /\ \/ drv.current_depth > drv.max_depth
     \/ drv.current_depth > 3 /\ TRUE \in Elapsed(drv.expired)
  /\ drv' = [drv EXCEPT !.pc = "finish",
                        !.expired = IF drv.current_depth > drv.max_depth THEN @ ELSE TRUE]
  /\ UNCHANGED <<black, white, moves, call, ret, pre, tt, pv_table, killer_moves,
                 history_table, stack, retval, out, tie, turns>>

\* minimax_best_move_with_tt at depth 1 when level1_best_move finds a move
MbmLevel1 ==
  /\ drv.pc = "mbm"
  /\ drv.current_depth = 1
  /\ \E m \in {level1_best_move(black, white, drv.player)} :
       /\ IsSome(m)
       /\ drv' = [drv EXCEPT !.pc = "iter_end", !.result = Some(<<Unwrap(m), 0>>)]
  /\ UNCHANGED <<black, white, moves, call, ret, pre, tt, pv_table, killer_moves,
                 history_table, stack, retval, out, tie, turns>>

\* minimax_best_move_with_tt when the side has no legal move
MbmNoMoves ==
  /\ drv.pc = "mbm"
  /\ ~(drv.current_depth = 1 /\ IsSome(level1_best_move(black, white, drv.player)))
  /\ get_legal_moves(black, white, drv.player) = {}
  /\ drv' = [drv EXCEPT !.pc = "iter_end", !.result = None]
  /\ UNCHANGED <<black, white, moves, call, ret, pre, tt, pv_table, killer_moves,
                 history_table, stack, retval, out, tie, turns>>

\* minimax_best_move_with_tt calling the search with the full window
MbmSearch ==
  /\ drv.pc = "mbm"
  /\ ~(drv.current_depth = 1 /\ IsSome(level1_best_move(black, white, drv.player)))
  /\ get_legal_moves(black, white, drv.player) # {}
  /\ pv_table' = pv_reset(pv_table, 0)
  /\ stack' = <<Frame(black, white, drv.player, drv.current_depth,
                      I32_MIN + 1, I32_MAX - 1, 0)>>
  /\ drv' = [drv EXCEPT !.pc = "mbm_wait"]
  /\ UNCHANGED <<black, white, moves, call, ret, pre, tt, killer_moves,
                 history_table, retval, out, tie, turns>>

MbmReturn ==
  /\ drv.pc = "mbm_wait"
  /\ stack = <<>>
  /\ retval # None
  /\ LET best_move == get_pv_move(pv_table, 0) IN
     drv' = [drv EXCEPT !.pc = "iter_end",
                        !.result = IF IsSome(best_move)
                                   THEN Some(<<Unwrap(best_move), Unwrap(retval)>>)
                                   ELSE None]
  /\ retval' = None
  /\ UNCHANGED <<black, white, moves, call, ret, pre, tt, pv_table, killer_moves,
                 history_table, stack, out, tie, turns>>

\* the head of the loop of aspiration_window_search
AspSearch ==
  /\ drv.pc = "asp"
  /\ pv_table' = pv_reset(pv_table, 0)
  /\ stack' = <<Frame(black, white, drv.player, drv.current_depth,
                      drv.alpha, drv.beta, 0)>>
  /\ drv' = [drv EXCEPT !.pc = "asp_wait"]
  /\ UNCHANGED <<black, white, moves, call, ret, pre, tt, killer_moves,
                 history_table, retval, out, tie, turns>>

\* after a failed window: the fallback once the window is wider than 1000
AfterFail(d) == [d EXCEPT !.pc = IF d.window_size > 1000 THEN "mbm" ELSE "asp"]

AspFailLow ==
  /\ drv.pc = "asp_wait"
  /\ stack = <<>>
  /\ retval # None
  /\ Unwrap(retval) <= drv.alpha
  /\ drv' = AfterFail([drv EXCEPT !.alpha = Unwrap(retval) - drv.window_size,
                                  !.window_size = drv.window_size * 2])
  /\ retval' = None
  /\ UNCHANGED <<black, white, moves, call, ret, pre, tt, pv_table, killer_moves,
                 history_table, stack, out, tie, turns>>

AspFailHigh ==
  /\ drv.pc = "asp_wait"
  /\ stack = <<>>
  /\ retval # None
  /\ Unwrap(retval) > drv.alpha
  /\ Unwrap(retval) >= drv.beta
  /\ drv' = AfterFail([drv EXCEPT !.beta = Unwrap(retval) + drv.window_size,
                                  !.window_size = drv.window_size * 2])
  /\ retval' = None
  /\ UNCHANGED <<black, white, moves, call, ret, pre, tt, pv_table, killer_moves,
                 history_table, stack, out, tie, turns>>

AspInWindow ==
  /\ drv.pc = "asp_wait"
  /\ stack = <<>>
  /\ retval # None
  /\ Unwrap(retval) > drv.alpha
  /\ Unwrap(retval) < drv.beta
  /\ LET best_move == get_pv_move(pv_table, 0) IN
     drv' = [drv EXCEPT !.pc = "iter_end",
                        !.result = IF IsSome(best_move)
                                   THEN Some(<<Unwrap(best_move), Unwrap(retval)>>)
                                   ELSE None]
  /\ retval' = None
  /\ UNCHANGED <<black, white, moves, call, ret, pre, tt, pv_table, killer_moves,
                 history_table, stack, out, tie, turns>>

\* IterEnd keeping the result of the first iteration that had one
IterEnd_keep_first ==
  /\ drv.pc = "iter_end"
  /\ IF IsSome(drv.result)
     THEN \E e \in Elapsed(drv.expired) :
            drv' = [drv EXCEPT !.best_move = IF IsSome(@) THEN @
                                             ELSE Some(Unwrap(drv.result)[1]),
                               !.best_eval = IF IsSome(@) THEN @
                                             ELSE Some(Unwrap(drv.result)[2]),
                               !.result = None,
                               !.expired = e,
                               !.pc = IF e THEN "finish" ELSE "iter",
                               !.current_depth = IF e THEN @ ELSE @ + 1]
     ELSE drv' = [drv EXCEPT !.pc = "iter", !.current_depth = @ + 1]
  /\ UNCHANGED <<black, white, moves, call, ret, pre, tt, pv_table, killer_moves,
                 history_table, stack, retval, out, tie, turns>>

\* the body of the loop over current_depth after aspiration_window_search
IterEnd ==
  /\ drv.pc = "iter_end"
  /\ IF IsSome(drv.result)
     THEN \E e \in Elapsed(drv.expired) :
            drv' = [drv EXCEPT !.best_move = Some(Unwrap(drv.result)[1]),
                               !.best_eval = Some(Unwrap(drv.result)[2]),
                               !.result = None,
                               !.expired = e,
                               !.pc = IF e THEN "finish" ELSE "iter",
                               !.current_depth = IF e THEN @ ELSE @ + 1]
     ELSE drv' = [drv EXCEPT !.pc = "iter", !.current_depth = @ + 1]
  /\ UNCHANGED <<black, white, moves, call, ret, pre, tt, pv_table, killer_moves,
                 history_table, stack, retval, out, tie, turns>>

\* history_table.age() and the return; the locals end with the call
Finish ==
  /\ drv.pc = "finish"
  /\ out' = <<drv.best_move, drv.best_eval>>
  /\ drv' = Driver("done", drv.player)
  /\ history_table' = history_age(history_table)
  /\ UNCHANGED <<black, white, moves, call, ret, pre, tt, pv_table, killer_moves,
                 stack, retval, tie, turns>>

---------------------------------------------------------------------------
(* minimax_with_tt_internal, step by step on the innermost call            *)

U == <<black, white, moves, call, ret, pre, drv, out, tie, turns>>

\* the probe answers: the call returns the stored score
ProbeReturn ==
  /\ InCall("enter")
  /\ \E pr \in {tt_probe(tt, Top)} :
       /\ IsSome(pr.ret)
       /\ retval' = pr.ret
  /\ stack' = Pop
  /\ pv_table' = pv_reset(pv_table, Top.ply)
  /\ UNCHANGED <<tt, killer_moves, history_table>>
  /\ UNCHANGED U

\* the probe does not answer: alpha is raised by a lower bound, and the call
\* goes on to the branch its depth and board select
ProbeMiss ==
  /\ InCall("enter")
  /\ \E pr \in {tt_probe(tt, Top)} :
       /\ ~IsSome(pr.ret)
       /\ \E k \in {node_kind(Top)} :
            stack' = SetTop([Top EXCEPT
                       !.alpha = pr.alpha,
                       !.stage = k,
                       !.legal_moves = IF k = "expand"
                                       THEN get_legal_moves(Top.b, Top.w, Top.player)
                                       ELSE {}])
  /\ pv_table' = pv_reset(pv_table, Top.ply)
  /\ UNCHANGED <<tt, killer_moves, history_table, retval>>
  /\ UNCHANGED U

\* depth == 0
Leaf ==
  /\ InCall("leaf")
  /\ \E score \in {evaluate_board_optimized(Top.b, Top.w, Top.player)} :
       /\ tt' = tt_insert(tt, tt_key(Top.b, Top.w, Top.player),
                          Entry(score, Top.depth, "Exact", None))
       /\ retval' = Some(score)
  /\ stack' = Pop
  /\ UNCHANGED <<pv_table, killer_moves, history_table>>
  /\ UNCHANGED U

\* is_game_over()
Terminal ==
  /\ InCall("terminal")
  /\ \E score \in {evaluate_game_end(Top.b, Top.w, Top.player)} :
       /\ tt' = tt_insert(tt, tt_key(Top.b, Top.w, Top.player),
                          Entry(score, Top.depth, "Exact", None))
       /\ retval' = Some(score)
  /\ stack' = Pop
  /\ UNCHANGED <<pv_table, killer_moves, history_table>>
  /\ UNCHANGED U

\* PassCall with the remaining depth handed on unchanged
PassCall_same_depth ==
  /\ InCall("pass")
  /\ stack' = Append(SetTop([Top EXCEPT !.stage = "wait_pass"]),
                     Frame(Top.b, Top.w, opponent(Top.player), Top.depth,
                           safe_neg(Top.beta), safe_neg(Top.alpha), Top.ply + 1))
  /\ UNCHANGED <<tt, pv_table, killer_moves, history_table, retval>>
  /\ UNCHANGED U

\* legal_moves == 0: the recursive call for the opponent on the same board
PassCall ==
  /\ InCall("pass")
  /\ stack' = Append(SetTop([Top EXCEPT !.stage = "wait_pass"]),
                     Frame(Top.b, Top.w, opponent(Top.player), Top.depth - 1,
                           safe_neg(Top.beta), safe_neg(Top.alpha), Top.ply + 1))
  /\ UNCHANGED <<tt, pv_table, killer_moves, history_table, retval>>
  /\ UNCHANGED U

PassReturn ==
  /\ Returned("wait_pass")
  /\ \E score \in {safe_neg(Unwrap(retval))} :
       /\ tt' = tt_insert(tt, tt_key(Top.b, Top.w, Top.player),
                          Entry(score, Top.depth, "Exact", None))
       /\ retval' = Some(score)
  /\ stack' = Pop
  /\ UNCHANGED <<pv_table, killer_moves, history_table>>
  /\ UNCHANGED U

\* futility_prune, static_eval, order_moves and the locals of the move loop
Expand ==
  /\ InCall("expand")
  /\ \E fp \in {Top.depth < 5 /\ ~is_endgame(Top.b, Top.w)} :
       stack' = SetTop([Top EXCEPT
                  !.futility_prune = fp,
                  !.static_eval = IF fp
                                  THEN evaluate_board_optimized(Top.b, Top.w, Top.player)
                                  ELSE 0,
                  !.moves = order_moves(Top.b, Top.w, Top.legal_moves, Top.player,
                                        Top.ply, pv_table, killer_moves,
                                        history_table, tie),
                  !.best_score = I32_MIN,
                  !.best_move = None,
                  !.move_count = 0,
                  !.stage = "loop"])
  /\ UNCHANGED <<tt, pv_table, killer_moves, history_table, retval>>
  /\ UNCHANGED U

\* the futility test of the move loop holds for moves[move_count]
Futile(f) ==
  /\ f.futility_prune
  /\ f.move_count > 0
  /\ f.static_eval + FUTILITY_MARGIN[f.depth + 1] <= f.alpha

FutilitySkip ==
  /\ InCall("loop")
  /\ Top.move_count < Len(Top.moves)
  /\ Futile(Top)
  /\ stack' = SetTop([Top EXCEPT !.move_count = @ + 1])
  /\ UNCHANGED <<tt, pv_table, killer_moves, history_table, retval>>
  /\ UNCHANGED U

\* the first move: full window
SearchFirst ==
  /\ InCall("loop")
  /\ Top.move_count < Len(Top.moves)
  /\ Top.move_count = 0
  /\ \E r \in {make_move(Top.b, Top.w, Top.moves[1].position, Top.player)} :
       IF ~r.ok
       THEN stack' = SetTop([Top EXCEPT !.move_count = @ + 1])
       ELSE stack' = Append(
              SetTop([Top EXCEPT !.stage = "wait_first",
                                 !.new_board = Board(r.black, r.white)]),
              Frame(r.black, r.white, opponent(Top.player), Top.depth - 1,
                    safe_neg(Top.beta), safe_neg(Top.alpha), Top.ply + 1))
  /\ UNCHANGED <<tt, pv_table, killer_moves, history_table, retval>>
  /\ UNCHANGED U

\* a later move: null window, reduced when the move is late and no killer
SearchNull ==
  /\ InCall("loop")
  /\ Top.move_count < Len(Top.moves)
  /\ Top.move_count > 0
  /\ ~Futile(Top)
  /\ \E r \in {make_move(Top.b, Top.w, Top.moves[Top.move_count + 1].position, Top.player)} :
       IF ~r.ok
       THEN stack' = SetTop([Top EXCEPT !.move_count = @ + 1])
       ELSE LET reduction == IF /\ Top.depth >= LMR_DEPTH_THRESHOLD
                                /\ Top.move_count >= LMR_MOVE_THRESHOLD
                                /\ ~is_killer(killer_moves, Top.ply,
                                              Top.moves[Top.move_count + 1].position)
                             THEN 1 ELSE 0
                search_depth == IF Top.depth >= 1 + reduction
                                THEN Top.depth - (1 + reduction) ELSE 0
            IN stack' = Append(
                 SetTop([Top EXCEPT !.stage = "wait_null",
                                    !.new_board = Board(r.black, r.white),
                                    !.reduction = reduction]),
                 Frame(r.black, r.white, opponent(Top.player), search_depth,
                       safe_neg(Top.alpha) - 1, safe_neg(Top.alpha), Top.ply + 1))
  /\ UNCHANGED <<tt, pv_table, killer_moves, history_table, retval>>
  /\ UNCHANGED U

\* the statements from "if score > best_score" to the end of the loop body
Scored(score) ==
  \E bk \in {bookkeep(Top, score, pv_table, killer_moves, history_table)} :
    /\ stack' = SetTop(bk.f)
    /\ pv_table' = bk.pv
    /\ killer_moves' = bk.km
    /\ history_table' = bk.ht
    /\ retval' = None
    /\ tt' = tt

FirstReturn ==
  /\ Returned("wait_first")
  /\ Scored(safe_neg(Unwrap(retval)))
  /\ UNCHANGED U

NeedsResearch(f, score) == score > f.alpha /\ (f.reduction > 0 \/ score < f.beta)

\* the null-window score calls for the re-search with the full window
NullReturnResearch ==
  /\ Returned("wait_null")
  /\ NeedsResearch(Top, safe_neg(Unwrap(retval)))
  /\ stack' = Append(
       SetTop([Top EXCEPT !.stage = "wait_research"]),
       Frame(Top.new_board.black, Top.new_board.white, opponent(Top.player),
             Top.depth - 1, safe_neg(Top.beta), safe_neg(Top.alpha), Top.ply + 1))
  /\ retval' = None
  /\ UNCHANGED <<tt, pv_table, killer_moves, history_table>>
  /\ UNCHANGED U

NullReturnKeep ==
  /\ Returned("wait_null")
  /\ ~NeedsResearch(Top, safe_neg(Unwrap(retval)))
  /\ Scored(safe_neg(Unwrap(retval)))
  /\ UNCHANGED U

ResearchReturn ==
  /\ Returned("wait_research")
  /\ Scored(safe_neg(Unwrap(retval)))
  /\ UNCHANGED U

\* the loop is over (all moves tried, or the beta cutoff): store and return
Store ==
  /\ \/ InCall("store")
     \/ InCall("loop") /\ Top.move_count >= Len(Top.moves)
  /\ tt' = tt_insert(tt, tt_key(Top.b, Top.w, Top.player),
                     Entry(Top.best_score, Top.depth, store_flag(Top), Top.best_move))
  /\ retval' = Some(Top.best_score)
  /\ stack' = Pop
  /\ UNCHANGED <<pv_table, killer_moves, history_table>>
  /\ UNCHANGED U

---------------------------------------------------------------------------
(* SpecSearch: calls of find_best_move_with_tt for one side with one        *)
(* transposition table kept across the calls.  Between two calls the board  *)
(* advances as play_turn advances it: the move the search returned, then    *)
(* the opponent's answer.  The depth of each call is any value up to        *)
(* MaxDepth, and the side is searched for even when it has no legal move.   *)

\* play_turn: board.make_move(pos, player) when the search returned a move
ApplyMove ==
  /\ drv.pc = "done"
  /\ turns > 0
  /\ IF IsSome(out[1])
     THEN MakeMove(Unwrap(out[1]), drv.player)
     ELSE UNCHANGED <<black, white, moves, call, ret, pre>>
  /\ drv' = [drv EXCEPT !.pc = "reply"]
  /\ UNCHANGED <<tt, pv_table, killer_moves, history_table, stack, retval, out,
                 tie, turns>>

\* the opponent's turn: its lowest legal square, or a pass
Reply ==
  /\ drv.pc = "reply"
  /\ \E legal_moves \in {get_legal_moves(black, white, opponent(drv.player))} :
       IF legal_moves = {}
       THEN UNCHANGED <<black, white, moves, call, ret, pre>>
       ELSE MakeMove(MinOf(legal_moves), opponent(drv.player))
  /\ drv' = [drv EXCEPT !.pc = IF is_game_over(black', white') THEN "over" ELSE "idle"]
  /\ UNCHANGED <<tt, pv_table, killer_moves, history_table, stack, retval, out,
                 tie, turns>>

\* the board after the moves mvs[i..], Black and White alternating from player
RECURSIVE PlayMoves(_, _, _, _)
PlayMoves(bd, mvs, i, player) ==
  IF i > Len(mvs) THEN bd
  ELSE LET r == make_move(bd.black, bd.white, mvs[i], player)
       IN PlayMoves(Board(r.black, r.white), mvs, i + 1, opponent(player))

\* seven moves of a game that can end after nine with no white disc left
\* (44 then 20); White is to move
WipeoutBoard == PlayMoves(new, <<37, 43, 34, 29, 52, 45, 38>>, 1, "Black")

\* the positions the searches start from, the side to move and the number
\* of turns the AI player takes from there
SearchStarts ==
  { [board |-> new,           player |-> "Black", turns |-> 1],
    [board |-> PlayoutLo[41], player |-> "White", turns |-> 1],
    [board |-> PlayoutLo[47], player |-> "White", turns |-> 2],
    [board |-> PlayoutLo[57], player |-> "Black", turns |-> 2],
    [board |-> PlayoutLo[57], player |-> "White", turns |-> 2],
    [board |-> WipeoutBoard,  player |-> "White", turns |-> 1] }

InitSearch ==
  /\ \E st \in SearchStarts :
       /\ black = st.board.black
       /\ white = st.board.white
       /\ pre = st.board
       /\ drv = Driver("idle", st.player)
       /\ turns = st.turns
  /\ tie \in {"asc", "desc"}
  /\ moves = 0
  /\ call = NoCall
  /\ ret = FALSE
  /\ tt = <<>>
  /\ pv_table = PVTable_new
  /\ killer_moves = KillerMoves_new
  /\ history_table = HistoryTable_new
  /\ stack = <<>>
  /\ retval = None
  /\ out = <<None, None>>

NextSearch ==
  \/ \E depth \in 0..MaxDepth : FindBestMove(depth)
  \/ IterStart
  \/ IterStop
  \/ MbmLevel1
  \/ MbmNoMoves
  \/ MbmSearch
  \/ MbmReturn
  \/ AspSearch
  \/ AspFailLow
  \/ AspFailHigh
  \/ AspInWindow
  \/ IterEnd
  \/ Finish
  \/ ProbeReturn
  \/ ProbeMiss
  \/ Leaf
  \/ Terminal
  \/ PassCall
  \/ PassReturn
  \/ Expand
  \/ FutilitySkip
  \/ SearchFirst
  \/ SearchNull
  \/ FirstReturn
  \/ NullReturnResearch
  \/ NullReturnKeep
  \/ ResearchReturn
  \/ Store
  \/ ApplyMove
  \/ Reply

SpecSearch == InitSearch /\ [][NextSearch]_vars

---------------------------------------------------------------------------
(* SpecCalls: two calls of the search on one board, compared.  drv.kind     *)
(* says what differs between the two:                                       *)
(*   "swap"  minimax_with_tt_internal for the side, then for its opponent,  *)
(*           full window, all tables fresh for each call;                   *)
(*   "hints" minimax_with_tt_internal twice for the side, full window and   *)
(*           empty transposition table; the second call finds the PV,       *)
(*           killer and history tables as the first call left them;         *)
(*   "asp"   the iterations of depths 1 .. max_depth - 1 as                 *)
(*           iterative_deepening_search runs them (the clock not running    *)
(*           out), then aspiration_window_search at max_depth; then, from   *)
(*           fresh tables, the same iterations again and                    *)
(*           minimax_best_move_with_tt at max_depth.                        *)
(* out collects the value each of the two calls returns.                    *)

CallCase(kind, bd, player, depth) ==
  [kind |-> kind, board |-> bd, player |-> player, depth |-> depth]

CallCases ==
  {CallCase("swap", bd, "Black", d) :
      bd \in {new, PlayoutLo[18], PlayoutLo[46], PlayoutLo[Len(PlayoutLo)]},
      d \in 0..(MaxDepth - 2)}
  \cup {CallCase("hints", PlayoutLo[8], "White", d) : d \in 1..(MaxDepth - 1)}
  \cup {CallCase("asp", bd, player, d) :
           bd \in {PlayoutLo[18], PlayoutLo[46]}, player \in Players,
           d \in 4..MaxDepth}

CallDriver(c) ==
  [pc |-> "start", player |-> c.player, max_depth |-> c.depth, current_depth |-> 0,
   best_move |-> None, best_eval |-> None, alpha |-> 0, beta |-> 0,
   window_size |-> 0, result |-> None, expired |-> FALSE,
   kind |-> c.kind, run |-> 1]

\* the driver at the head of the iteration of depth d: depths up to 3, and
\* the last depth of the second run, go to minimax_best_move_with_tt
EnterDepth(d, depth) ==
  IF depth <= 3 \/ (depth = d.max_depth /\ d.run = 2)
  THEN [d EXCEPT !.pc = "mbm", !.current_depth = depth]
  ELSE LET prev_score == IF IsSome(d.best_eval) THEN Unwrap(d.best_eval) ELSE 0
       IN [d EXCEPT !.pc = "asp", !.current_depth = depth,
                    !.alpha = prev_score - ASPIRATION_WINDOW,
                    !.beta = prev_score + ASPIRATION_WINDOW,
                    !.window_size = ASPIRATION_WINDOW]

\* a run begins
CompareStart ==
  /\ drv.pc = "start"
  /\ IF drv.kind = "asp"
     THEN /\ drv' = EnterDepth(drv, 1)
          /\ stack' = stack
     ELSE /\ drv' = [drv EXCEPT !.pc = "call_wait"]
          /\ stack' = <<Frame(black, white,
                              IF drv.kind = "swap" /\ drv.run = 2
                              THEN opponent(drv.player) ELSE drv.player,
                              drv.max_depth, I32_MIN + 1, I32_MAX - 1, 0)>>
  /\ UNCHANGED <<black, white, moves, call, ret, pre, tt, pv_table, killer_moves,
                 history_table, retval, out, tie, turns>>

\* the tables the second run starts from
SecondRunTables(kind) ==
  /\ tt' = <<>>
  /\ IF kind = "hints"
     THEN UNCHANGED <<pv_table, killer_moves, history_table>>
     ELSE /\ pv_table' = PVTable_new
          /\ killer_moves' = KillerMoves_new
          /\ history_table' = HistoryTable_new

\* the value of a run is recorded; the second run is set up after the first
RunEnd(value) ==
  /\ out' = Append(out, value)
  /\ IF drv.run = 1
     THEN /\ drv' = [drv EXCEPT !.pc = "start", !.run = 2, !.current_depth = 0,
                                !.best_eval = None, !.best_move = None,
                                !.result = None]
          /\ SecondRunTables(drv.kind)
     ELSE /\ drv' = [drv EXCEPT !.pc = "done"]
          /\ UNCHANGED <<tt, pv_table, killer_moves, history_table>>

\* minimax_with_tt_internal has returned to the comparison
CompareReturn ==
  /\ drv.pc = "call_wait"
  /\ stack = <<>>
  /\ retval # None
  /\ RunEnd(Unwrap(retval))
  /\ retval' = None
  /\ UNCHANGED <<black, white, moves, call, ret, pre, stack, tie, turns>>

\* an iteration below max_depth is over: best_eval as the loop body of
\* iterative_deepening_search sets it, then the next depth
CompareNextDepth ==
  /\ drv.pc = "iter_end"
  /\ drv.current_depth < drv.max_depth
  /\ drv' = EnterDepth(
       [drv EXCEPT !.best_move = IF IsSome(drv.result)
                                 THEN Some(Unwrap(drv.result)[1]) ELSE @,
                   !.best_eval = IF IsSome(drv.result)
                                 THEN Some(Unwrap(drv.result)[2]) ELSE @,
                   !.result = None],
       drv.current_depth + 1)
  /\ UNCHANGED <<black, white, moves, call, ret, pre, tt, pv_table, killer_moves,
                 history_table, stack, retval, out, tie, turns>>

\* the search of max_depth is over
CompareEnd ==
  /\ drv.pc = "iter_end"
  /\ drv.current_depth = drv.max_depth
  /\ RunEnd(drv.result)
  /\ UNCHANGED <<black, white, moves, call, ret, pre, stack, retval, tie, turns>>

InitCalls ==
  /\ \E c \in CallCases :
       /\ black = c.board.black
       /\ white = c.board.white
       /\ pre = c.board
       /\ drv = CallDriver(c)
  /\ tie \in {"asc", "desc"}
  /\ turns = 0
  /\ moves = 0
  /\ call = NoCall
  /\ ret = FALSE
  /\ tt = <<>>
  /\ pv_table = PVTable_new
  /\ killer_moves = KillerMoves_new
  /\ history_table = HistoryTable_new
  /\ stack = <<>>
  /\ retval = None
  /\ out = <<>>

NextCalls ==
  \/ CompareStart
  \/ CompareReturn
  \/ CompareNextDepth
  \/ CompareEnd
  \/ MbmLevel1
  \/ MbmNoMoves
  \/ MbmSearch
  \/ MbmReturn
  \/ AspSearch
  \/ AspFailLow
  \/ AspFailHigh
  \/ AspInWindow
  \/ ProbeReturn
  \/ ProbeMiss
  \/ Leaf
  \/ Terminal
  \/ PassCall
  \/ PassReturn
  \/ Expand
  \/ FutilitySkip
  \/ SearchFirst
  \/ SearchNull
  \/ FirstReturn
  \/ NullReturnResearch
  \/ NullReturnKeep
  \/ ResearchReturn
  \/ Store

SpecCalls == InitCalls /\ [][NextCalls]_vars

---------------------------------------------------------------------------
(* SpecTrim: the maintenance of the transposition table at the start of a   *)
(* turn, for tables of the sizes at which it acts.  Neither trim looks at   *)
(* anything but the number of entries and their depths, so here tt gives,   *)
(* for the depths 0 .. 3, the number of entries of that depth; pre is the   *)
(* table before the last trim.  The search that follows is SpecSearch's.    *)

\* tt.len()
tt_len(t) == t[0] + t[1] + t[2] + t[3]

\* the table without n entries, taken from the depths in the order ord and
\* from each depth as many as it has
RECURSIVE take_in_order(_, _, _, _)
take_in_order(t, ord, i, n) ==
  IF i > Len(ord) \/ n = 0 THEN t
  ELSE LET r == IF t[ord[i]] < n THEN t[ord[i]] ELSE n
       IN take_in_order([t EXCEPT ![ord[i]] = @ - r], ord, i + 1, n - r)

\* cleanup_tt on the counts: the keys of entries of depth <= 2 are collected
\* in the order the map is iterated until enough are found.  Of the orders
\* the map can have, the model takes those that run through one depth after
\* the other.
cleanup_tt_counts(t) ==
  IF tt_len(t) <= MAX_TT_SIZE THEN {t}
  ELSE LET target_size == (MAX_TT_SIZE * 3) \div 4
           shallow == t[0] + t[1] + t[2]
           n == IF shallow + target_size >= tt_len(t)
                THEN tt_len(t) - target_size
                ELSE shallow
       IN {take_in_order(t, ord, 1, n) :
             ord \in {<<0, 1, 2>>, <<0, 2, 1>>, <<1, 0, 2>>,
                      <<1, 2, 0>>, <<2, 0, 1>>, <<2, 1, 0>>}}

\* play_turn of an AI player, before the search: every eighth disc count a
\* table of more than 5,000,000 entries is cut to the 2,000,000 deepest
TurnCleanup ==
  /\ call.op = "none"
  /\ LET total_moves == Cardinality(black \cup white)
         retain_count == 2000000
     IN IF tt_len(tt) > 5000000 /\ total_moves % 8 = 0
        THEN tt' = take_in_order(tt, <<0, 1, 2, 3>>, 1, tt_len(tt) - retain_count)
        ELSE tt' = tt
  /\ pre' = tt
  /\ call' = [op |-> "play_turn", pos |-> 0, player |-> "Black"]
  /\ UNCHANGED <<black, white, moves, ret, pv_table, killer_moves, history_table,
                 stack, retval, drv, out, tie, turns>>

\* find_best_move_with_tt with depth > 0, before the search
Maintenance ==
  /\ call.op \in {"none", "play_turn"}
  /\ IF tt_len(tt) > TT_CLEANUP_THRESHOLD
     THEN tt' \in cleanup_tt_counts(tt)
     ELSE tt' = tt
  /\ pre' = tt
  /\ call' = [op |-> "find_best_move_with_tt", pos |-> 0, player |-> "Black"]
  /\ UNCHANGED <<black, white, moves, ret, pv_table, killer_moves, history_table,
                 stack, retval, drv, out, tie, turns>>

\* the tables: of each depth no entry, one, or a share of the capacity; the
\* boards: the initial one (4 discs) and the one after four moves (8 discs)
InitTrim ==
  /\ tt \in [0..3 -> {0, 1, MAX_TT_SIZE \div 4, TT_CLEANUP_THRESHOLD, MAX_TT_SIZE + 1}]
  /\ pre = tt
  /\ \E bd \in {new, PlayoutLo[5]} : black = bd.black /\ white = bd.white
  /\ moves = 0
  /\ call = NoCall
  /\ ret = FALSE
  /\ pv_table = <<>>
  /\ killer_moves = <<>>
  /\ history_table = <<>>
  /\ stack = <<>>
  /\ retval = None
  /\ drv = Driver("idle", "Black")
  /\ out = <<None, None>>
  /\ tie = "asc"
  /\ turns = 1

NextTrim ==
  \/ TurnCleanup
  \/ Maintenance

SpecTrim == InitTrim /\ [][NextTrim]_vars

---------------------------------------------------------------------------
(* SpecGame: the game loop of run_cli_game, from a board of a game in       *)
(* progress, for up to MaxPlies moves.  drv.player is current_player, pre   *)
(* the board the loop started from, moves the number of moves made since.   *)

\* the side to move has a legal move and play_turn makes one of them
GameMove ==
  /\ moves < MaxPlies
  /\ ~is_game_over(black, white)
  /\ \E pos \in get_legal_moves(black, white, drv.player) :
       \E r \in {make_move(black, white, pos, drv.player)} :
         /\ black' = r.black
         /\ white' = r.white
         /\ ret' = r.ok
         /\ call' = [op |-> "make_move", pos |-> pos, player |-> drv.player]
  /\ moves' = moves + 1
  /\ drv' = [drv EXCEPT !.player = opponent(@)]
  /\ UNCHANGED <<pre, tt, pv_table, killer_moves, history_table, stack, retval,
                 out, tie, turns>>

\* the side to move has no legal move and passes
GamePass ==
  /\ ~is_game_over(black, white)
  /\ get_legal_moves(black, white, drv.player) = {}
  /\ drv' = [drv EXCEPT !.player = opponent(@)]
  /\ call' = NoCall
  /\ UNCHANGED <<black, white, moves, ret, pre, tt, pv_table, killer_moves,
                 history_table, stack, retval, out, tie, turns>>

\* boards of the two playouts on which a side owns a corner, Black to move
InitGame ==
  /\ tt = <<>>
  /\ pv_table = <<>>
  /\ killer_moves = <<>>
  /\ history_table = <<>>
  /\ \E bd \in {PlayoutLo[26], PlayoutLo[34], PlayoutHi[26], PlayoutHi[34]} :
       /\ black = bd.black
       /\ white = bd.white
       /\ pre = bd
  /\ drv = Driver("idle", "Black")
  /\ moves = 0
  /\ call = NoCall
  /\ ret = FALSE
  /\ stack = <<>>
  /\ retval = None
  /\ out = <<None, None>>
  /\ tie = "asc"
  /\ turns = 0

NextGame ==
  \/ GameMove
  \/ GamePass

SpecGame == InitGame /\ [][NextGame]_vars

---------------------------------------------------------------------------
(* SpecGui: the interactive surface.  drv holds the fields of OthelloApp    *)
(* (with a counter that is not in the program: game, the number of games    *)
(* started), black and white are its board, stack is the set of worker      *)
(* threads that have not sent yet, each with its copy of the board, its     *)
(* player and whether the receiver of its channel is still held by the app, *)
(* out is the message waiting in the channel whose receiver the app holds,  *)
(* ret the last message check_ai_move took with the board and the player it *)
(* applied it to, moves the number of moves of the game.                    *)
(* AI players are of level 1, for which find_best_move_with_tt is           *)
(* level1_best_move.                                                        *)

\* the test of the automatic pass in update
pass_due_unguarded(app, legal_moves) == legal_moves = {}

pass_due(app, legal_moves) == legal_moves = {} /\ ~app.ai_thinking

\* the cells clicked on a board: the first legal move of the side to move
\* and the corner a1
ClickCells(b, w, player) ==
  LET legal_moves == get_legal_moves(b, w, player)
  IN {0} \cup {p \in legal_moves : \A q \in legal_moves : p <= q}

\* the inputs of one frame in the state wb the frame has reached
Inputs(wb) ==
  LET ev(kind, cell, black_ai, white_ai) ==
        [kind |-> kind, row |-> cell \div 8, col |-> cell % 8,
         black_ai |-> black_ai, white_ai |-> white_ai]
  IN {ev("none", 0, FALSE, FALSE)}
       \cup (IF wb.app.state = "Menu"
             THEN {ev("start_game", 0, b, w) : b \in BOOLEAN, w \in BOOLEAN}
             ELSE {ev("return_to_menu", 0, FALSE, FALSE)}
                    \cup {ev("click", cell, FALSE, FALSE) :
                            cell \in ClickCells(wb.black, wb.white,
                                                wb.app.current_player)})
       \cup (IF wb.app.state = "GameOver"
             THEN {ev("new_game", 0, FALSE, FALSE)} ELSE {})

\* one frame: update, with one input ev shown to the views
Update ==
  LET drop_receiver(w) ==
        [w EXCEPT !.app = [@ EXCEPT !.ai_move_receiver = None],
                  !.chan = None,
                  !.workers = {[wk EXCEPT !.connected = FALSE] : wk \in @}]
      is_ai(w) == IF w.app.current_player = "Black" THEN w.app.black_ai
                  ELSE w.app.white_ai
      turn(w, pass_count) ==
        [w EXCEPT !.app = [@ EXCEPT !.current_player = opponent(@),
                                    !.pass_count = pass_count]]
      play(w, position) ==
        LET r == make_move(w.black, w.white, position, w.app.current_player)
        IN [turn(w, 0) EXCEPT !.black = r.black, !.white = r.white,
                              !.moves = @ + 1]
      check_ai_move(w) ==
        IF IsSome(w.app.ai_move_receiver) /\ IsSome(w.chan)
        THEN LET msg == Unwrap(w.chan)
                 w1 == [drop_receiver(w)
                      EXCEPT !.app = [@ EXCEPT !.ai_thinking = FALSE],
                             !.applied = Some([msg |-> msg,
                                              board |-> Board(w.black, w.white),
                                              player |-> w.app.current_player,
                                              game |-> w.app.game])]
             IN IF msg.success
                THEN IF IsSome(msg.move_position)
                     THEN play(w1, Unwrap(msg.move_position)[1] * 8
                                     + Unwrap(msg.move_position)[2])
                     ELSE w1
                ELSE turn(w1, w1.app.pass_count + 1)
        ELSE w
      check_game_over(w) ==
        IF is_game_over(w.black, w.white) \/ w.app.pass_count >= 2
        THEN [w EXCEPT !.app = [@ EXCEPT !.state = "GameOver"]]
        ELSE w
      start_ai_thinking(w) ==
        IF w.app.ai_thinking \/ ~is_ai(w) THEN w
        ELSE [drop_receiver(w)
                EXCEPT !.app = [@ EXCEPT !.ai_thinking = TRUE,
                                         !.ai_move_receiver = Some("Receiver")],
                       !.workers = @ \cup {[connected |-> TRUE,
                                            board_copy |-> Board(w.black, w.white),
                                            current_player |-> w.app.current_player,
                                            game |-> w.app.game]}]
      playing(w) ==
        LET w1 == check_game_over(w) IN
        IF w1.app.state = "Playing"
        THEN LET w2 == IF is_ai(w1) THEN start_ai_thinking(w1) ELSE w1
             IN IF pass_due(w2.app, get_legal_moves(w2.black, w2.white,
                                                    w2.app.current_player))
                THEN turn(w2, w2.app.pass_count + 1)
                ELSE w2
        ELSE w1
      start_new_game(w, black_ai, white_ai) ==
        [drop_receiver(w)
           EXCEPT !.app = [@ EXCEPT !.current_player = "Black",
                                    !.pass_count = 0,
                                    !.ai_thinking = FALSE,
                                    !.black_ai = black_ai,
                                    !.white_ai = white_ai,
                                    !.state = "Playing",
                                    !.game = @ + 1],
                  !.black = new.black,
                  !.white = new.white,
                  !.moves = 0]
      handle_human_move(w, row, col) ==
        IF (row * 8 + col) \in get_legal_moves(w.black, w.white, w.app.current_player)
             /\ make_move(w.black, w.white, row * 8 + col, w.app.current_player).ok
        THEN play(w, row * 8 + col)
        ELSE w
      show(w, ev) ==
        CASE w.app.state = "Menu" /\ ev.kind = "start_game" ->
               start_new_game(w, ev.black_ai, ev.white_ai)
          [] w.app.state # "Menu" /\ ev.kind = "click" ->
               IF w.app.state = "Playing" /\ ~w.app.ai_thinking /\ ~is_ai(w)
               THEN handle_human_move(w, ev.row, ev.col)
               ELSE w
          [] w.app.state # "Menu" /\ ev.kind = "return_to_menu" ->
               [w EXCEPT !.app = [@ EXCEPT !.state = "Menu"]]
          [] w.app.state = "GameOver" /\ ev.kind = "new_game" ->
               start_new_game(w, w.app.black_ai, w.app.white_ai)
          [] OTHER -> w
      w0 == [app |-> drv, black |-> black, white |-> white, workers |-> stack,
             chan |-> out, moves |-> moves, applied |-> ret]
      wa == IF w0.app.ai_thinking THEN check_ai_move(w0) ELSE w0
      wb == IF wa.app.state = "Playing" /\ ~wa.app.ai_thinking THEN playing(wa) ELSE wa
  IN \E w \in {show(w1, ev) : w1 \in {wb}, ev \in Inputs(wb)} :
       /\ w.moves <= MaxPlies
       /\ w.app.game <= MaxGames
       /\ drv' = w.app
       /\ black' = w.black
       /\ white' = w.white
       /\ stack' = w.workers
       /\ out' = w.chan
       /\ moves' = w.moves
       /\ ret' = w.applied
         /\ UNCHANGED <<call, pre, tt, pv_table, killer_moves, history_table, retval,
                      tie, turns>>

\* a worker thread ends: the move of its search on its copy of the board,
\* sent on its channel; the message is lost when the receiver is gone
WorkerFinish ==
  \E wk \in stack :
    LET best_move == level1_best_move(wk.board_copy.black, wk.board_copy.white,
                                      wk.current_player)
        msg == IF IsSome(best_move)
               THEN [success |-> make_move(wk.board_copy.black, wk.board_copy.white,
                                           Unwrap(best_move), wk.current_player).ok,
                     move_position |-> Some(<<Unwrap(best_move) \div 8,
                                              Unwrap(best_move) % 8>>),
                     worker |-> wk]
               ELSE [success |-> FALSE, move_position |-> None, worker |-> wk]
    IN /\ stack' = stack \ {wk}
       /\ out' = IF wk.connected THEN Some(msg) ELSE out
       /\ UNCHANGED <<black, white, moves, call, ret, pre, tt, pv_table,
                      killer_moves, history_table, retval, drv, tie, turns>>

\* the app as constructed (the menu), or between two frames of a game in
\* progress: just before Black has to pass, and two moves before the end
InitGui ==
  /\ \E st \in {[state |-> "Menu", board |-> new],
                [state |-> "Playing", board |-> PlayoutLo[19]],
                [state |-> "Playing", board |-> PlayoutLo[59]]} :
       \E black_ai, white_ai \in IF st.state = "Menu" THEN {FALSE} ELSE BOOLEAN :
         /\ black = st.board.black
         /\ white = st.board.white
         /\ drv = [state |-> st.state, current_player |-> "Black",
                   black_ai |-> black_ai, white_ai |-> white_ai, pass_count |-> 0,
                   ai_thinking |-> FALSE, ai_move_receiver |-> None,
                   game |-> IF st.state = "Menu" THEN 0 ELSE 1]
  /\ stack = {}
  /\ out = None
  /\ ret = None
  /\ moves = 0
  /\ call = NoCall
  /\ pre = new
  /\ tt = <<>>
  /\ pv_table = <<>>
  /\ killer_moves = <<>>
  /\ history_table = <<>>
  /\ retval = None
  /\ tie = "asc"
  /\ turns = 0

NextGui ==
  \/ Update
  \/ WorkerFinish

SpecGui == InitGui /\ [][NextGui]_vars

---------------------------------------------------------------------------
(* Properties of the board operations                                      *)

\* C1: on every board reached from the initial position by make_move calls
\* (accepted or rejected, by either player, in any order) the two masks share
\* no square, and the black discs, the white discs and the empty squares
\* add up to 64.
C1_MasksDisjoint ==
  /\ black \cap white = {}
  /\ Cardinality(black) + Cardinality(white)
       + Cardinality({s \in Squares : s \notin black /\ s \notin white}) = 64

\* Black moves twice in a row and takes the last white disc
C1_Witness ==
  /\ moves >= 2
  /\ call.op = "make_move"
  /\ call.player = "Black"
  /\ ret = TRUE
  /\ white = {}

\* C2: make_move on an occupied square, or on an empty square with no flips,
\* returns false and leaves black and white as they were before the call.
C2_RejectedMoveKeepsBoard ==
  (/\ call.op = "make_move"
   /\ \/ call.pos \in (pre.black \cup pre.white)
      \/ compute_flips(pre.black, pre.white, call.pos, call.player) = {})
  => (ret = FALSE /\ black = pre.black /\ white = pre.white)

\* an empty square next to an opponent disc that turns nothing
C2_Witness ==
  /\ call.op = "make_move"
  /\ moves >= 1
  /\ call.pos \notin (pre.black \cup pre.white)
  /\ get_adjacent_mask(call.pos)
       \cap (IF call.player = "Black" THEN pre.white ELSE pre.black) # {}
  /\ compute_flips(pre.black, pre.white, call.pos, call.player) = {}
  /\ ret = FALSE

\* C3: every square in the mask returned by get_legal_moves(side) is accepted
\* by make_move(square, side) on a copy of the board.
C3_LegalMovesSucceed ==
  call.op = "get_legal_moves"
  => \A sq \in ret : make_move(pre.black, pre.white, sq, call.player).ok

C3_Witness ==
  /\ call.op = "get_legal_moves"
  /\ Cardinality(ret) >= 2
  /\ Cardinality(pre.black \cup pre.white) > 20

\* C4: an accepted make_move(pos, player) changes exactly pos and the squares
\* of compute_flips(pos, player): they all become the mover's and leave the
\* opponent, every other square keeps its owner or stays empty, the mover
\* gains 1 + |flips| discs and the opponent loses |flips|.
C4_MoveEffect ==
  (call.op = "make_move" /\ ret = TRUE)
  => LET flips   == compute_flips(pre.black, pre.white, call.pos, call.player)
         changed == {call.pos} \cup flips
         mine(bd)   == IF call.player = "Black" THEN bd.black ELSE bd.white
         theirs(bd) == IF call.player = "Black" THEN bd.white ELSE bd.black
         post    == Board(black, white)
     IN /\ changed \subseteq mine(post)
        /\ changed \cap theirs(post) = {}
        /\ changed \cap mine(pre) = {}
        /\ \A s \in Squares \ changed :
              /\ (s \in black) = (s \in pre.black)
              /\ (s \in white) = (s \in pre.white)
        /\ Cardinality(mine(post)) = Cardinality(mine(pre)) + 1 + Cardinality(flips)
        /\ Cardinality(theirs(post)) = Cardinality(theirs(pre)) - Cardinality(flips)

\* an accepted move that turns at least three discs
C4_Witness ==
  /\ call.op = "make_move"
  /\ ret = TRUE
  /\ Cardinality(compute_flips(pre.black, pre.white, call.pos, call.player)) >= 3

\* C5: compute_flips(pos, player) is the union over the 8 directions of the
\* maximal run of opponent discs that starts next to pos, when the square
\* right after the run is on the board and holds a disc of player; a run that
\* ends at an empty square or at the edge gives nothing, and a run never
\* continues across a row or column edge.
C5_FlipsAreBracketedRuns ==
  call.op = "compute_flips"
  => LET my  == IF call.player = "Black" THEN pre.black ELSE pre.white
         opp == IF call.player = "Black" THEN pre.white ELSE pre.black
         row == call.pos \div 8
         col == call.pos % 8
         on(d, k) == /\ row + k * d[1] \in 0..7
                     /\ col + k * d[2] \in 0..7
         sq(d, k) == (row + k * d[1]) * 8 + (col + k * d[2])
         isrun(d, n) == \A k \in 1..n : on(d, k) /\ sq(d, k) \in opp
         len(d) == CHOOSE n \in 0..7 : isrun(d, n) /\ ~isrun(d, n + 1)
         run(d) == IF len(d) >= 1 /\ on(d, len(d) + 1) /\ sq(d, len(d) + 1) \in my
                   THEN {sq(d, k) : k \in 1..len(d)}
                   ELSE {}
         ds == {<<dr, dc>> : dr \in {-1, 0, 1}, dc \in {-1, 0, 1}} \ {<<0, 0>>}
     IN ret = UNION {run(d) : d \in ds}

\* some discs are turned while a neighbouring opponent disc is not
C5_Witness ==
  /\ call.op = "compute_flips"
  /\ ret # {}
  /\ \E s \in get_adjacent_mask(call.pos) :
        /\ s \in (IF call.player = "Black" THEN pre.white ELSE pre.black)
        /\ s \notin ret

\* C6: on a board with disjoint masks is_legal_move(pos, player) is true
\* exactly when pos is empty and compute_flips(pos, player) is not empty, that
\* is exactly when pos is in get_legal_moves(player); the adjacency filter
\* never rejects a square that has flips.
C6_LegalMoveCharacterised ==
  /\ call.op = "is_legal_move"
     => LET flips == compute_flips(pre.black, pre.white, call.pos, call.player)
            opp   == IF call.player = "Black" THEN pre.white ELSE pre.black
        IN /\ ret = (call.pos \notin (pre.black \cup pre.white) /\ flips # {})
           /\ flips # {} => get_adjacent_mask(call.pos) \cap opp # {}
  /\ call.op = "get_legal_moves"
     => \A pos \in Squares :
           (pos \in ret) = is_legal_move(pre.black, pre.white, pos, call.player)

\* a legal square on the left or right edge
C6_Witness ==
  /\ call.op = "is_legal_move"
  /\ ret = TRUE
  /\ call.pos % 8 \in {0, 7}

\* C7: compute_flips(pos, Black) on (black = b, white = w) equals
\* compute_flips(pos, White) on the colour-swapped board (black = w, white = b).
C7_ColourSwap ==
  call.op = "compute_flips"
  => ret = compute_flips(pre.white, pre.black, call.pos, opponent(call.player))

C7_Witness ==
  /\ call.op = "compute_flips"
  /\ call.player = "White"
  /\ Cardinality(ret) >= 2

\* C8: is_game_over is true exactly when no square is empty or neither Black
\* nor White has a move that make_move accepts.
C8_GameOver ==
  call.op = "is_game_over"
  => LET full == \A s \in Squares : s \in pre.black \/ s \in pre.white
         canmove(p) == \E s \in Squares : make_move(pre.black, pre.white, s, p).ok
     IN ret = (full \/ (~canmove("Black") /\ ~canmove("White")))

\* the game is over with empty squares left
C8_Witness ==
  /\ call.op = "is_game_over"
  /\ ret = TRUE
  /\ Cardinality(pre.black \cup pre.white) < 64

\* C9: get_winner is the side with strictly more discs and None on equal
\* counts; on a full board is_game_over is true.
C9_Winner ==
  /\ call.op = "get_winner"
     => ret = (IF Cardinality(pre.black) > Cardinality(pre.white) THEN "Black"
               ELSE IF Cardinality(pre.white) > Cardinality(pre.black) THEN "White"
               ELSE "None")
  /\ (call.op = "is_game_over" /\ (pre.black \cup pre.white) = Squares)
     => ret = TRUE

\* a full board with 32 discs each
C9_Witness ==
  /\ call.op = "get_winner"
  /\ (pre.black \cup pre.white) = Squares
  /\ ret = "None"

\* C22: negating a score never overflows.  safe_neg maps i32::MIN to
\* i32::MAX and every other value v to -v; its result is never i32::MIN, so
\* the child bounds safe_neg(beta), safe_neg(alpha) and safe_neg(alpha) - 1
\* are inside the i32 range for every alpha and beta, the bounds the driver
\* passes in (i32::MIN + 1, i32::MAX - 1, a score -/+ the aspiration window)
\* among them.
C22_NegationStaysInRange ==
  call.op = "null_window"
  => /\ ret.child_beta = (IF ret.alpha = I32_MIN THEN I32_MAX ELSE 0 - ret.alpha)
     /\ ret.child_beta >= I32_MIN + 1
     /\ ret.child_beta <= I32_MAX
     /\ IsSome(ret.child_alpha)
     /\ Unwrap(ret.child_alpha) = ret.child_beta - 1
     /\ Unwrap(ret.child_alpha) >= I32_MIN

\* the bounds for alpha = i32::MIN and for the driver's alpha i32::MIN + 1
\* have been computed
C22_Witness ==
  /\ call.op = "null_window"
  /\ \/ ret.alpha = I32_MIN /\ ret.child_beta = I32_MAX
     \/ ret.alpha = I32_MIN + 1 /\ ret.child_alpha = Some(I32_MAX - 1)

---------------------------------------------------------------------------
(* Properties of the search                                                *)

\* C14: on every board where the game is over, the terminal score evaluated
\* for one colour is the negation of the terminal score evaluated for the
\* other colour.
C14_TerminalScoreAntisymmetric ==
  (call.op = "evaluate_game_end" /\ is_game_over(pre.black, pre.white))
  => ret = 0 - evaluate_game_end(pre.black, pre.white, opponent(call.player))

\* the score of Black, who trails, on a board with empty squares where
\* neither side can move
C14_Witness ==
  /\ call.op = "evaluate_game_end"
  /\ call.player = "Black"
  /\ is_game_over(pre.black, pre.white)
  /\ (pre.black \cup pre.white) # Squares
  /\ ret < -10000

\* C10: a move returned by find_best_move_with_tt, whatever the depth (1 or
\* more), the board and the entries earlier searches left in the table, is a
\* legal move of the side on the board the search was called on.
C10_ReturnedMoveLegal ==
  (drv.pc = "done" /\ IsSome(out[1]))
  => Unwrap(out[1]) \in get_legal_moves(black, white, drv.player)

\* the second search of a player returns a move, its root stored at depth 4
\* or more on top of the entries of the first search
C10_Witness ==
  /\ drv.pc = "done"
  /\ IsSome(out[1])
  /\ moves >= 1
  /\ tt_key(black, white, drv.player) \in DOMAIN tt
  /\ tt[tt_key(black, white, drv.player)].depth >= 4

\* C11: find_best_move_with_tt called with depth 1 or more returns a move
\* exactly when the side to move has a legal move on the board, whatever the
\* table holds and whenever the time runs out; with no legal move it returns
\* (None, None).  (Only a call of depth 1 or more passes through "finish".)
C11_MoveIffLegalMoveExists ==
  [][(drv.pc = "finish" /\ drv'.pc = "done")
     => LET legal == get_legal_moves(black, white, drv.player)
        IN  /\ IsSome(out'[1]) <=> legal # {}
            /\ legal = {} => out' = <<None, None>>]_vars

\* a search of depth 4 or more, whose root is a forced pass that was searched
\* and stored, has returned (None, None)
C11_Witness ==
  /\ drv.pc = "done"
  /\ out = <<None, None>>
  /\ get_legal_moves(black, white, drv.player) = {}
  /\ ~is_game_over(black, white)
  /\ tt_key(black, white, drv.player) \in DOMAIN tt

\* C12: every call of find_best_move_with_tt terminates.  Each call of
\* minimax_with_tt_internal made by another one, the forced-pass call
\* included, has a remaining depth strictly below its caller's (and not below
\* 0); the window of aspiration_window_search is 50 doubled at most four
\* times while its loop runs, so the loop makes at most five searches before
\* the full-window fallback; an iteration runs only for a current_depth from
\* 1 to max_depth, and current_depth grows with every iteration.  Every step
\* of a running call lowers a well-founded measure: the iterations left, the
\* point reached in the iteration (the re-searches left included), then for
\* each active call from the outermost in, the moves left and the point
\* reached in the loop body; the sequences are compared lexicographically, a
\* proper prefix being smaller.
C12_SearchTerminates ==
  [][LET running == {"iter", "mbm", "mbm_wait", "asp", "asp_wait", "iter_end", "finish"}
         retries(d) == CASE d.window_size <= ASPIRATION_WINDOW      -> 5
                         [] d.window_size <= ASPIRATION_WINDOW * 2  -> 4
                         [] d.window_size <= ASPIRATION_WINDOW * 4  -> 3
                         [] d.window_size <= ASPIRATION_WINDOW * 8  -> 2
                         [] d.window_size <= ASPIRATION_WINDOW * 16 -> 1
                         [] OTHER -> 0
         pcRank(d) == CASE d.pc = "iter"     -> 20
                        [] d.pc = "asp"      -> 5 + 2 * retries(d)
                        [] d.pc = "asp_wait" -> 4 + 2 * retries(d)
                        [] d.pc = "mbm"      -> 3
                        [] d.pc = "mbm_wait" -> 2
                        [] d.pc = "iter_end" -> 1
                        [] OTHER -> 0
         left(f) == 4 * (64 - f.move_count)
         frameRank(f) == CASE f.stage = "enter" -> 270
                           [] f.stage \in {"leaf", "terminal", "pass", "expand"} -> 269
                           [] f.stage = "wait_pass" -> 268
                           [] f.stage = "loop" -> left(f) + 3
                           [] f.stage \in {"wait_first", "wait_null"} -> left(f) + 2
                           [] f.stage = "wait_research" -> left(f) + 1
                           [] OTHER -> 0
         measure(d, st) == <<d.max_depth + 1 - d.current_depth, pcRank(d)>>
                             \o [i \in 1..Len(st) |-> frameRank(st[i])]
         less(x, y) == \E k \in 1..Len(y) :
                          /\ \A j \in 1..(k - 1) : j <= Len(x) /\ x[j] = y[j]
                          /\ \/ k = Len(x) + 1
                             \/ k <= Len(x) /\ x[k] < y[k]
     IN
     /\ \A i \in 2..Len(stack') :
           /\ stack'[i].depth < stack'[i - 1].depth
           /\ stack'[i].depth >= 0
     /\ drv'.pc \in {"asp", "asp_wait"}
           => drv'.window_size \in {ASPIRATION_WINDOW * k : k \in {1, 2, 4, 8, 16}}
     /\ drv'.pc \in running
           => drv'.current_depth >= 1 /\ drv'.current_depth <= drv'.max_depth + 1
     /\ drv'.pc \in running \ {"iter", "finish"}
           => drv'.current_depth <= drv'.max_depth
     /\ (drv.pc = "iter_end" /\ drv'.pc = "iter")
           => drv'.current_depth = drv.current_depth + 1
     /\ (drv.pc \in running /\ drv'.pc \in running)
           => less(measure(drv', stack'), measure(drv, stack))]_vars

\* the forced-pass call is running, one ply below the passing call, inside a
\* search of aspiration_window_search at depth 4 or more
C12_Witness ==
  /\ drv.pc = "asp_wait"
  /\ drv.current_depth >= 4
  /\ \E i \in 1..Len(stack) - 1 :
        /\ stack[i].stage = "wait_pass"
        /\ stack[i + 1].depth = stack[i].depth - 1

\* C13: when a call of minimax_with_tt_internal evaluates a board on which
\* the game is over, as a leaf of depth 0 or as an inner node, the score it
\* returns and stores is 10000 + d when the player of the call leads by d > 0
\* discs, -(10000 + d) when the player trails by d > 0 discs, and 0 on a tie:
\* never the phase-weighted sum.
C13_GameOverScoreIsTerminal ==
  [][(/\ stack # <<>>
      /\ retval = None
      /\ Top.stage \in {"leaf", "terminal"}
      /\ is_game_over(Top.b, Top.w))
     => LET own == Cardinality(IF Top.player = "Black" THEN Top.b ELSE Top.w)
            opp == Cardinality(IF Top.player = "Black" THEN Top.w ELSE Top.b)
            terminal == IF own > opp THEN 10000 + (own - opp)
                        ELSE IF own < opp THEN 0 - (10000 + (opp - own))
                        ELSE 0
        IN  /\ retval' = Some(terminal)
            /\ tt'[tt_key(Top.b, Top.w, Top.player)].score = terminal]_vars

\* a leaf of depth 0 on a board with empty squares where neither side can
\* move has returned the score of the trailing side
C13_Witness ==
  /\ retval # None
  /\ Unwrap(retval) < -10000
  /\ \E k \in DOMAIN tt :
        /\ tt[k].depth = 0
        /\ tt[k].score = Unwrap(retval)
        /\ (k[1] \cup k[2]) # Squares
        /\ is_game_over(k[1], k[2])
        /\ Cardinality(IF k[3] = player_index("Black") THEN k[1] ELSE k[2])
             - Cardinality(IF k[3] = player_index("Black") THEN k[2] ELSE k[1])
           = Unwrap(retval) + 10000

\* C17: a call of find_best_move_with_tt with depth 1 runs no tree search (no
\* call of minimax_with_tt_internal, no aspiration loop), and when the side
\* has a legal move the move it returns is a legal move whose positional
\* value plus corner bonus plus 10 per flipped disc is the largest among the
\* legal moves.  At the initial position with Black to move the legal moves
\* are (2,3), (3,2), (4,5), (5,4), each flips exactly one disc, and the move
\* returned is one of them.
C17_ShallowModeIsGreedy ==
  LET legal == get_legal_moves(black, white, drv.player)
      value(pos) == POSITION_SCORE[(pos \div 8) + 1][(pos % 8) + 1]
                      + (IF pos \in {0, 7, 56, 63} THEN CORNER_WEIGHT ELSE 0)
                      + 10 * Cardinality(compute_flips(black, white, pos, drv.player))
      openings == {2 * 8 + 3, 3 * 8 + 2, 4 * 8 + 5, 5 * 8 + 4}
  IN
  (drv.pc \in {"iter", "mbm", "mbm_wait", "asp", "asp_wait", "iter_end", "finish"}
     /\ drv.max_depth = 1)
  => /\ stack = <<>>
     /\ drv.pc \in {"iter", "mbm", "iter_end", "finish"}
     /\ (drv.pc = "finish" /\ legal # {})
          => /\ IsSome(drv.best_move)
             /\ Unwrap(drv.best_move) \in legal
             /\ \A pos \in legal : value(Unwrap(drv.best_move)) >= value(pos)
     /\ (drv.pc = "finish" /\ drv.player = "Black"
           /\ black = DEFAULT_BLACK /\ white = DEFAULT_WHITE)
          => /\ legal = openings
             /\ \A pos \in openings :
                   Cardinality(compute_flips(black, white, pos, "Black")) = 1
             /\ IsSome(drv.best_move)
             /\ Unwrap(drv.best_move) \in openings

\* the call of depth 1 for Black at the initial position is about to return
\* (2,3), the first of the four openings, all of the same value
C17_Witness ==
  /\ drv.pc = "finish"
  /\ drv.max_depth = 1
  /\ drv.player = "Black"
  /\ black = DEFAULT_BLACK
  /\ white = DEFAULT_WHITE
  /\ drv.best_move = Some(19)
  /\ drv.best_eval = Some(0)
  /\ tt = <<>>

\* C18: at a node where the side to move has no legal move and its opponent
\* has one, the search calls itself for the opponent on the same board with
\* the remaining depth unchanged and the window negated and swapped, and
\* returns the negation of the score of that call.
C18_PassKeepsDepth ==
  [][/\ (stack # <<>> /\ retval = None /\ Top.stage = "pass")
          => /\ Len(stack') = Len(stack) + 1
             /\ LET child == stack'[Len(stack')] IN
                /\ child.b = Top.b
                /\ child.w = Top.w
                /\ child.player = opponent(Top.player)
                /\ child.alpha = safe_neg(Top.beta)
                /\ child.beta = safe_neg(Top.alpha)
                /\ child.depth = Top.depth
     /\ (stack # <<>> /\ retval # None /\ Top.stage = "wait_pass")
          => retval' = Some(safe_neg(Unwrap(retval)))]_vars

\* C20: in a call with target depth max_depth the iterations of depths
\* 1 .. min(3, max_depth) are always run, whatever the clock reads.  (When
\* the loop is left, current_depth is the depth of the last iteration run if
\* the loop was left after an iteration, and the depth of the first
\* iteration not run otherwise; the latter is above 3 or above max_depth.)
C20_FirstThreeDepthsAlwaysRun ==
  drv.pc = "finish"
  => drv.current_depth >= (IF drv.max_depth < 3 THEN drv.max_depth ELSE 3)

\* C21 as the specification states it: the pair find_best_move_with_tt
\* returns is the root PV move and the score of the deepest iteration that
\* completed with a result.  Step by step: the result an iteration hands to
\* the loop is the move at the root of the PV table with the score of the
\* root search; the iterations run in increasing depth; an iteration with a
\* result replaces best_move and best_eval, an iteration without one leaves
\* them; nothing else changes them, and they are what the call returns.
C21_ReturnedPairIsDeepestPV ==
  [][/\ (drv.pc \in {"mbm", "mbm_wait", "asp_wait"} /\ drv'.pc = "iter_end"
           /\ IsSome(drv'.result))
          => /\ IsSome(retval)
             /\ IsSome(get_pv_move(pv_table', 0))
             /\ Unwrap(drv'.result) = <<Unwrap(get_pv_move(pv_table', 0)),
                                        Unwrap(retval)>>
     /\ (drv.pc = "iter_end" /\ IsSome(drv.result))
          => /\ drv'.best_move = Some(Unwrap(drv.result)[1])
             /\ drv'.best_eval = Some(Unwrap(drv.result)[2])
     /\ (drv.pc \notin {"idle", "done", "reply", "over", "finish"}
           /\ ~(drv.pc = "iter_end" /\ IsSome(drv.result)))
          => /\ drv'.best_move = drv.best_move
             /\ drv'.best_eval = drv.best_eval
     /\ (drv.pc \notin {"idle", "done", "reply", "over", "finish"})
          => /\ drv'.current_depth >= drv.current_depth
             /\ drv'.current_depth <= drv.current_depth + 1
             /\ drv'.current_depth > drv.current_depth => drv.pc = "iter_end"
     /\ drv.pc = "finish" => out' = <<drv.best_move, drv.best_eval>>]_vars

\* C21, amended: as above, except that the iteration of depth 1 on a board
\* with a legal move runs no search: its result is the move of
\* level1_best_move with the score 0, and the PV table is left empty.
C21_ReturnedPairIsDeepestResult ==
  [][/\ (drv.pc \in {"mbm", "mbm_wait", "asp_wait"} /\ drv'.pc = "iter_end"
           /\ IsSome(drv'.result))
          => IF drv.pc = "mbm"
             THEN /\ drv.current_depth = 1
                  /\ retval = None
                  /\ ~IsSome(get_pv_move(pv_table', 0))
                  /\ Unwrap(drv'.result) =
                       <<Unwrap(level1_best_move(black, white, drv.player)), 0>>
             ELSE /\ IsSome(retval)
                  /\ IsSome(get_pv_move(pv_table', 0))
                  /\ Unwrap(drv'.result) = <<Unwrap(get_pv_move(pv_table', 0)),
                                             Unwrap(retval)>>
     /\ (drv.pc = "iter_end" /\ IsSome(drv.result))
          => /\ drv'.best_move = Some(Unwrap(drv.result)[1])
             /\ drv'.best_eval = Some(Unwrap(drv.result)[2])
     /\ (drv.pc \notin {"idle", "done", "reply", "over", "finish"}
           /\ ~(drv.pc = "iter_end" /\ IsSome(drv.result)))
          => /\ drv'.best_move = drv.best_move
             /\ drv'.best_eval = drv.best_eval
     /\ (drv.pc \notin {"idle", "done", "reply", "over", "finish"})
          => /\ drv'.current_depth >= drv.current_depth
             /\ drv'.current_depth <= drv.current_depth + 1
             /\ drv'.current_depth > drv.current_depth => drv.pc = "iter_end"
     /\ drv.pc = "finish" => out' = <<drv.best_move, drv.best_eval>>]_vars

\* an iteration of depth 2 or more has a result whose move differs from the
\* move of the iterations before it
C21_Witness ==
  /\ drv.pc = "iter_end"
  /\ drv.current_depth >= 2
  /\ IsSome(drv.result)
  /\ IsSome(drv.best_move)
  /\ Unwrap(drv.result)[1] # Unwrap(drv.best_move)

\* C23: at the entry of a call, a stored entry for the position counts only
\* if its depth is at least the remaining depth.  Then an Exact entry's score
\* is returned at once, a LowerBound entry's score is returned when it is
\* >= beta, an UpperBound entry's score is returned when it is <= alpha, and
\* otherwise the call goes on with the window tightened: alpha raised to the
\* score of a lower bound, beta lowered to the score of an upper bound.  With
\* no entry, or an entry of smaller depth, the call goes on with its window
\* unchanged.
C23_ProbeUsesDeepEntries ==
  [][(stack # <<>> /\ retval = None /\ Top.stage = "enter")
       => LET e == tt_get(tt, tt_key(Top.b, Top.w, Top.player))
              returns(score) == /\ retval' = Some(score)
                                /\ stack' = Pop
              goes_on(alpha, beta) ==
                /\ retval' = None
                /\ Len(stack') = Len(stack)
                /\ stack'[Len(stack)].stage # "enter"
                /\ stack'[Len(stack)].alpha = alpha
                /\ stack'[Len(stack)].beta = beta
              max(a, b) == IF a >= b THEN a ELSE b
              min(a, b) == IF a <= b THEN a ELSE b
          IN IF ~IsSome(e) \/ Unwrap(e).depth < Top.depth
             THEN goes_on(Top.alpha, Top.beta)
             ELSE LET entry == Unwrap(e) IN
                  CASE entry.flag = "Exact" -> returns(entry.score)
                    [] entry.flag = "LowerBound" ->
                         IF entry.score >= Top.beta
                         THEN returns(entry.score)
                         ELSE goes_on(max(Top.alpha, entry.score), Top.beta)
                    [] entry.flag = "UpperBound" ->
                         IF entry.score <= Top.alpha
                         THEN returns(entry.score)
                         ELSE goes_on(Top.alpha, min(Top.beta, entry.score))]_vars

\* C24: when a node that tried its candidates stores its result, the entry is
\* Exact exactly when original alpha < score < beta (the window of the
\* call), UpperBound when the score is at most the original alpha, LowerBound
\* when the score is at least beta; its depth is the remaining depth of the
\* node, its score the score returned, and its move the candidate whose
\* search gave that score: the first candidate to exceed every score before
\* it.
C24_StoredEntryClassified ==
  [][/\ (stack # <<>> /\ retval = None
           /\ \/ Top.stage = "store"
              \/ Top.stage = "loop" /\ Top.move_count >= Len(Top.moves))
          => LET e == tt_get(tt', tt_key(Top.b, Top.w, Top.player)) IN
             /\ IsSome(e)
             /\ retval' = Some(Top.best_score)
             /\ Unwrap(e).score = Top.best_score
             /\ Unwrap(e).depth = Top.depth
             /\ Unwrap(e).best_move = Top.best_move
             /\ IsSome(Top.best_move)
             /\ Unwrap(e).flag = "Exact"
                  <=> (Top.original_alpha < Top.best_score /\ Top.best_score < Top.beta)
             /\ Unwrap(e).flag = "UpperBound" <=> Top.best_score <= Top.original_alpha
             /\ Unwrap(e).flag = "LowerBound" <=> Top.best_score >= Top.beta
     /\ (stack # <<>> /\ retval # None
           /\ \/ Top.stage \in {"wait_first", "wait_research"}
              \/ Top.stage = "wait_null" /\ Len(stack') = Len(stack))
          => LET score == safe_neg(Unwrap(retval))
                 after == stack'[Len(stack)]
             IN IF score > Top.best_score
                THEN /\ after.best_score = score
                     /\ after.best_move = Some(Top.moves[Top.move_count + 1].position)
                ELSE /\ after.best_score = Top.best_score
                     /\ after.best_move = Top.best_move]_vars

\* the table holds entries of the three types stored by nodes of depth 2 or
\* more that tried their candidates
C24_Witness ==
  \A flag \in {"Exact", "UpperBound", "LowerBound"} :
    \E k \in DOMAIN tt :
      /\ tt[k].flag = flag
      /\ tt[k].depth >= 2
      /\ IsSome(tt[k].best_move)

\* C25: an entry is written with type Exact only when its score is a leaf or
\* terminal evaluation, or lies strictly inside the (alpha, beta) window of
\* the call that writes it; the entry of a node that has to pass is no
\* exception.
C25_ExactOnlyInsideWindow ==
  [][(stack # <<>> /\ tt' # tt)
       => LET e == tt_get(tt', tt_key(Top.b, Top.w, Top.player)) IN
          (IsSome(e) /\ Unwrap(e).flag = "Exact")
            => \/ Top.stage \in {"leaf", "terminal"}
               \/ /\ Top.original_alpha < Unwrap(e).score
                  /\ Unwrap(e).score < Top.beta]_vars

---------------------------------------------------------------------------
(* Properties of the stability count                                       *)

\* C28: a disc that compute_stable_discs counts as stable for a side on a
\* board of a game keeps the colour of that side however the game goes on.
C28_StableDiscsNeverFlip ==
  /\ compute_stable_discs(pre.black, pre.white, "Black") \subseteq black
  /\ compute_stable_discs(pre.black, pre.white, "White") \subseteq white

---------------------------------------------------------------------------
(* Properties of the table maintenance                                     *)

\* C26: when find_best_move_with_tt is called with a table of more than
\* TT_CLEANUP_THRESHOLD entries, the table it searches with has fewer than
\* 3/4 of MAX_TT_SIZE entries.
C26_CleanupReachesTarget ==
  (call.op = "find_best_move_with_tt" /\ tt_len(pre) > TT_CLEANUP_THRESHOLD)
  => tt_len(tt) < (MAX_TT_SIZE * 3) \div 4

\* C27: after a trim (cleanup_tt, or the cut at the start of play_turn) no
\* evicted entry is deeper than an entry that was kept.
C27_LowestDepthEvictedFirst ==
  call.op \in {"play_turn", "find_best_move_with_tt"}
  => \A evicted, kept \in 0..3 :
       (tt[evicted] < pre[evicted] /\ tt[kept] > 0) => evicted <= kept

\* C29: the move loop passes over a candidate without searching it only if
\* the candidate is not the first of the node, the remaining depth is below
\* 5, the static evaluation plus the margin of the depth is at most alpha,
\* and the board is not in the End phase of from_empty_count.
C29_NoFutilitySkipInEndPhase ==
  [][(/\ stack # <<>> /\ retval = None /\ Top.stage = "loop"
      /\ Len(stack') = Len(stack)
      /\ stack'[Len(stack)].move_count = Top.move_count + 1)
       => /\ Top.move_count > 0
          /\ Top.depth < 5
          /\ evaluate_board_optimized(Top.b, Top.w, Top.player)
               + FUTILITY_MARGIN[Top.depth + 1] <= Top.alpha
          /\ from_empty_count(empty_count_of(Top.b, Top.w)) # "End"]_vars

---------------------------------------------------------------------------
(* Properties of two searches compared                                     *)

C16_AspirationEqualsFullWindow ==
  (drv.pc = "done" /\ drv.kind = "asp") => out[1] = out[2]

\* C19: for the same board, side, depth, window and transposition table, the
\* score the search returns is the same whatever the PV, killer and history
\* tables hold, that is for every order in which the moves are tried.
C19_OrderingKeepsScore ==
  (drv.pc = "done" /\ drv.kind = "hints") => out[1] = out[2]

---------------------------------------------------------------------------
(* Properties of the interactive surface                                   *)

\* C30: at most one result of an AI worker is outstanding per game; while
\* one is, the board and the side to move are those the worker was started
\* with; the result check_ai_move takes was computed for the game, the board
\* and the player it is applied to, so a result of a game that
\* start_new_game replaced is never applied.
C30_OneWorkerResultPerTurn ==
  LET outstanding == {wk \in stack : wk.game = drv.game}
                       \cup (IF IsSome(out) THEN {Unwrap(out).worker} ELSE {})
  IN /\ Cardinality(outstanding) <= 1
     /\ \A g \in 0..drv.game : Cardinality({wk \in stack : wk.game = g}) <= 1
     /\ ~(IsSome(out) /\ Unwrap(out).worker \in stack)
     /\ \A wk \in outstanding :
          /\ wk.game = drv.game
          /\ drv.ai_thinking
          /\ wk.connected
          /\ IsSome(drv.ai_move_receiver)
          /\ wk.board_copy = Board(black, white)
          /\ wk.current_player = drv.current_player
     /\ IsSome(ret)
          => /\ Unwrap(ret).msg.worker.game = Unwrap(ret).game
             /\ Unwrap(ret).msg.worker.board_copy = Unwrap(ret).board
             /\ Unwrap(ret).msg.worker.current_player = Unwrap(ret).player

\* in the second game a result that was a pass has been applied while the
\* worker of a game that was replaced is still running
C30_Witness ==
  /\ IsSome(ret)
  /\ ~Unwrap(ret).msg.success
  /\ \E wk \in stack : wk.game < drv.game

===========================================================================
